---- MODULE Spec2Model ----
(***************************************************************************)
(* Verification model of the wtf process-tree recorder:                    *)
(*   - the ptrace tracer main loop          (src/src/trace.rs)             *)
(*   - the Recording event applier          (src/src/record.rs)            *)
(*   - the sweep-line layout engine         (src/src/layout.rs)            *)
(*   - the /proc poller                     (src/src/poll.rs)              *)
(* The specifications of the module: SpecTrace, SpecUnstored, SpecClassify,*)
(* SpecRec, SpecFeed, SpecLayout, SpecFreeList, SpecPipe, SpecPoll.        *)
(***************************************************************************)
EXTENDS Integers, Sequences, FiniteSets, TLC

VARIABLES
    \* ---- tracer (record_trace_impl) ----
    pc,                     \* "start" | "loop" | "done"
    partial_syscalls,       \* HashMap<Pid, SyscallEntry>, as [Pids -> entry or None]
    active_processes,       \* HashSet<Pid>
    root_exec_any_success,  \* bool
    root_exec_last_error,   \* Option<Errno>
    emitted,                \* the events handed to the callback by the last step
    result,                 \* what record_trace returned (or Panic), None while running
    \* ---- tracer environment: the kernel and the callback ----
    clock,                  \* last value read from time_start.elapsed()
    kentry,                 \* per task: the syscall the kernel has in flight
    klast,                  \* the syscall-exit stop handled by the last step, if it was one
    khist,                  \* what the kernel really did (root exec outcomes, Break)
    \* ---- recorder (Recording::report) ----
    rec,                    \* the Recording
    rec2,                   \* a second Recording fed the same events (other time_start)
    rpanic,                 \* report panicked (unwrap / insert_first assertion)
    rlast,                  \* the event whose report panicked
    rfirst,                 \* the pid of the first ProcessStart reported
    \* ---- layout (place_processes) ----
    placed,                 \* [no |-> place_processes(rec,false), yes |-> ...(rec,true)]
    \* ---- pipeline: tracer -> FIFO -> collector -> slot -> consumer ----
    kern,                   \* the kernel's view of each task: its life, a fork in flight
    cancel,                 \* the shared cancellation flag
    chan,                   \* the event FIFO: sent and not yet received
    sent,                   \* every event sent so far, in order
    cpc,                    \* the collector: "run" | "done"
    slot,                   \* data_to_gui: Mutex<Option<DataToGui>>
    data                    \* App.data: Option<DataToGui>

tvars == <<pc, partial_syscalls, active_processes, root_exec_any_success,
           root_exec_last_error, emitted, result, clock, kentry, klast, khist>>
rvars == <<rec, rec2, rpanic, rlast, rfirst>>
\* what the tracer never touches
pvars == <<kern, cancel, chan, sent, cpc, slot, data>>
rlvars == <<rec, rec2, rpanic, rlast, rfirst, placed,
            kern, cancel, chan, sent, cpc, slot, data>>
vars == <<pc, partial_syscalls, active_processes, root_exec_any_success,
          root_exec_last_error, emitted, result, clock, kentry, klast, khist,
          rec, rec2, rpanic, rlast, rfirst, placed,
          kern, cancel, chan, sent, cpc, slot, data>>

\* Option::None
None == [tag |-> "None"]

Max(a, b) == IF a >= b THEN a ELSE b
Min(a, b) == IF a <= b THEN a ELSE b

(***************************************************************************)
(*                               TRACER                                    *)
(***************************************************************************)

\* ---- bounds of the tracer model ----
MaxClock == 1       \* largest reading of the elapsed-time clock

\* the pid fork() returned for the traced child
RootPid == 1
\* any other task id waitpid(None) reports.  The loop treats task ids alike
\* but for the comparison with root_pid, and its per-task state is keyed by
\* the id, so one other task stands for all of them.
OtherPid == 2
Pids == {RootPid, OtherPid}

\* libc::CLONE_THREAD
CLONE_THREAD == 65536

ENOENT == 2
EACCES == 13
EAGAIN == 11

\* ---- trace events (enum TraceEvent) ----
EvProcessStart(pid, time) == [tag |-> "ProcessStart", pid |-> pid, time |-> time]
EvProcessExit(pid, time) == [tag |-> "ProcessExit", pid |-> pid, time |-> time]
EvProcessChild(parent, child, kind) ==
    [tag |-> "ProcessChild", parent |-> parent, child |-> child, kind |-> kind]
EvProcessExec(pid, time, path, argv) ==
    [tag |-> "ProcessExec", pid |-> pid, time |-> time, path |-> path, argv |-> argv]
EvTime(time) == [tag |-> "Time", time |-> time]

\* ---- enum SyscallEntry ----
SeIgnore == [tag |-> "Ignore"]
SeFork(kind) == [tag |-> "Fork", kind |-> kind]
SeExec(args) == [tag |-> "Exec", args |-> args]

\* mutation of process_kind_from_clone_flags: any flag at all makes a thread
process_kind_from_clone_flags_AnyFlag(flags) ==
    IF flags # 0 THEN "Thread" ELSE "Process"

\* process_kind_from_clone_flags: test of the CLONE_THREAD bit
process_kind_from_clone_flags(flags) ==
    IF (flags \div CLONE_THREAD) % 2 # 0 THEN "Thread" ELSE "Process"

\* ptrace_extract_exec_args: the path string and the argv list read from the
\* tracee's memory at the given pointers
ptrace_extract_exec_args(mem, path_ptr, argv_ptr) ==
    [path |-> mem[path_ptr].str, argv |-> mem[argv_ptr].list]

\* Sysno::new: None for a number that names no syscall
Sysno_new(nr) == IF nr = "unknown" THEN None ELSE [tag |-> "Some", nr |-> nr]

\* classification of a syscall-entry stop (the match on nr)
ClassifyEntry(info) ==
    LET nr == Sysno_new(info.nr) IN
    IF nr = None THEN SeIgnore
    ELSE CASE nr.nr = "clone" ->
                SeFork(process_kind_from_clone_flags(info.args[1]))
           [] nr.nr = "clone3" ->
                LET flags == IF info.args[2] >= 8
                             THEN info.mem[info.args[1]].word ELSE 0
                IN SeFork(process_kind_from_clone_flags(flags))
           [] nr.nr \in {"fork", "vfork"} -> SeFork("Process")
           [] nr.nr = "execve" ->
                SeExec(ptrace_extract_exec_args(info.mem, info.args[1], info.args[2]))
           [] nr.nr = "execveat" ->
                SeExec(ptrace_extract_exec_args(info.mem, info.args[2], info.args[3]))
           [] nr.nr \in {"exit", "exit_group"} -> SeIgnore
           [] OTHER -> SeIgnore

\* ---- what the kernel can report to waitpid ----

\* tracee memory at a syscall-entry stop: three addresses, each read as a word,
\* as a C string or as a NULL-terminated char* list
TraceeMem(word, path) ==
    [a \in 1..3 |->
        CASE a = 1 -> [word |-> word, str |-> path, list |-> <<>>]
          [] a = 2 -> [word |-> 0, str |-> "", list |-> <<path, "arg">>]
          [] a = 3 -> [word |-> 0, str |-> "/dirfd", list |-> <<"/dirfd">>]]

SysInfo(nr, args, mem) == [nr |-> nr, args |-> args, mem |-> mem]

\* registers (orig_rax, rdi, rsi, rdx, r10) and memory at a syscall-entry stop
SysInputs ==
       {SysInfo(nr, <<0, 0, 0, 0>>, TraceeMem(0, "")) :
            nr \in {"fork", "vfork", "exit_group", "read", "unknown"}}
  \cup {SysInfo("clone", <<f, 0, 0, 0>>, TraceeMem(0, "")) :
            f \in {17, CLONE_THREAD + 256}}
  \cup {SysInfo("clone3", <<1, sz, 0, 0>>, TraceeMem(CLONE_THREAD + 256, "")) :
            sz \in {0, 88}}
  \cup {SysInfo("execve", <<1, 2, 3, 0>>, TraceeMem(0, "/usr/local/bin/foo")),
        SysInfo("execveat", <<3, 1, 2, 3>>, TraceeMem(0, "/usr/bin/foo"))}

\* the syscall as the kernel executes it (execve(path, argv, envp),
\* execveat(dirfd, path, argv, envp, flags)), with what the tracer made of it
\* at this entry stop; kept per task while in flight
KernelView(info) ==
    CASE info.nr = "execve" ->
            [tag |-> "InSyscall", exec |-> TRUE,
             path |-> info.mem[info.args[1]].str, argv |-> info.mem[info.args[2]].list,
             seen |-> ClassifyEntry(info)]
      [] info.nr = "execveat" ->
            [tag |-> "InSyscall", exec |-> TRUE,
             path |-> info.mem[info.args[2]].str, argv |-> info.mem[info.args[3]].list,
             seen |-> ClassifyEntry(info)]
      [] OTHER ->
            [tag |-> "InSyscall", exec |-> FALSE, path |-> "", argv |-> <<>>,
             seen |-> ClassifyEntry(info)]

\* return values the kernel can leave in rax at a syscall-exit stop
ExecSvals == {-EACCES, -ENOENT, 0}
OtherSvals == {-EAGAIN, 0} \cup Pids
SvalsOf(k) == IF k.exec THEN ExecSvals ELSE OtherSvals

Signals == {"SIGSTOP", "SIGTRAP", "SIGCHLD"}

\* ---- the callback ----
\* calls: the events one loop iteration hands to the callback when it is never
\* told to stop; brk: the index of the call that returns Break (0: none does).
Delivered(calls, brk) == IF brk = 0 THEN calls ELSE SubSeq(calls, 1, brk)
\* the i-th call was made and returned Continue
Passed(calls, brk, i) == i <= Len(calls) /\ (brk = 0 \/ brk > i)

\* record_trace: a Break of the callback becomes Ok(())
ResOk == [tag |-> "Ok"]
ResSpawnFailed(e) == [tag |-> "SpawnFailed", errno |-> e]
ResPanic == [tag |-> "Panic"]

\* mutation of OnBreak: the Break is handed on as no result at all
OnBreak_NoResult(brk, r) == r

\* the `?` on a callback result: leave record_trace_impl with Break, which
\* record_trace turns into Ok(())
OnBreak(brk, r) == IF brk # 0 THEN ResOk ELSE r
\* mutant: the Break of the callback is dropped and the loop goes on
PcAfter_IgnoreBreak(brk, p) == p

PcAfter(brk, p) == IF brk # 0 THEN "done" ELSE p

\* after the loop: the check that the root managed to start
FinalResult(any_success, last_error) ==
    IF ~any_success
    THEN IF last_error = None THEN ResPanic  \* expect("there wasn't any exec attempt")
         ELSE ResSpawnFailed(last_error.v)
    ELSE ResOk

Some(v) == [tag |-> "Some", v |-> v]

\* a syscall-exit stop as the kernel reported it: the task, the return value
\* and the syscall that was in flight; NoExit after any other stop
KStop(kind, pid, sval, view) ==
    [tag |-> "Stop", kind |-> kind, pid |-> pid, sval |-> sval, view |-> view]
NoExit == KStop("other", 0, 0, None)

TraceInit ==
    /\ pc = "start"
    /\ partial_syscalls = [p \in Pids |-> None]
    /\ active_processes = {}
    /\ root_exec_any_success = FALSE
    /\ root_exec_last_error = None
    /\ emitted = <<>>
    /\ result = None
    /\ clock = 0
    /\ kentry = [p \in Pids |-> None]
    /\ klast = NoExit
    /\ khist = [root_exec_ok |-> FALSE, root_last_fail |-> None,
                other_fail |-> None, brk |-> 0]
    /\ rec = None /\ rec2 = None /\ rpanic = FALSE /\ rlast = <<>> /\ rfirst = None
    /\ placed = None
    /\ kern = None /\ cancel = FALSE /\ chan = <<>> /\ sent = <<>>
    /\ cpc = "idle" /\ slot = None /\ data = None

\* fork, initial waitpid, setoptions, the root's ProcessStart, first resume
OnTraceStart(brk) ==
    /\ pc = "start"
    /\ LET calls == <<EvProcessStart(RootPid, 0)>> IN
       /\ brk \in 0..Len(calls)
       /\ emitted' = Delivered(calls, brk)
       /\ active_processes' = IF brk = 0 THEN {RootPid} ELSE active_processes
       /\ result' = OnBreak(brk, None)
       /\ pc' = PcAfter(brk, "loop")
       /\ khist' = [khist EXCEPT !.brk = brk]
    /\ UNCHANGED <<partial_syscalls, root_exec_any_success, root_exec_last_error,
                   clock, kentry, klast>>

\* one waitpid: the clock is read
Waited(dt) ==
    /\ pc = "loop"
    /\ clock + dt <= MaxClock
    /\ clock' = clock + dt

\* mutation of OnSyscallEntryStop: one slot shared by all tasks
OnSyscallEntryStop_SharedSlot(pid, dt, info, brk) ==
    /\ Waited(dt)
    /\ kentry[pid] = None
    /\ partial_syscalls[pid] = None
    /\ LET calls == <<EvTime(clock')>> IN
       /\ brk \in 0..Len(calls)
       /\ emitted' = Delivered(calls, brk)
       /\ partial_syscalls' =
            IF brk = 0 THEN [p \in Pids |-> ClassifyEntry(info)]
            ELSE partial_syscalls
       /\ result' = OnBreak(brk, None)
       /\ pc' = PcAfter(brk, "loop")
       /\ khist' = [khist EXCEPT !.brk = brk]
    /\ kentry' = [kentry EXCEPT ![pid] = KernelView(info)]
    /\ klast' = NoExit
    /\ UNCHANGED <<active_processes, root_exec_any_success, root_exec_last_error>>

\* WaitStatus::PtraceSyscall(pid) with no stored entry: a syscall-entry stop
OnSyscallEntryStop(pid, dt, info, brk) ==
    /\ Waited(dt)
    /\ kentry[pid] = None
    /\ partial_syscalls[pid] = None
    /\ LET calls == <<EvTime(clock')>> IN
       /\ brk \in 0..Len(calls)
       /\ emitted' = Delivered(calls, brk)
       /\ partial_syscalls' =
            IF brk = 0 THEN [partial_syscalls EXCEPT ![pid] = ClassifyEntry(info)]
            ELSE partial_syscalls
       /\ result' = OnBreak(brk, None)
       /\ pc' = PcAfter(brk, "loop")
       /\ khist' = [khist EXCEPT !.brk = brk]
    /\ kentry' = [kentry EXCEPT ![pid] = KernelView(info)]
    /\ klast' = NoExit
    /\ UNCHANGED <<active_processes, root_exec_any_success, root_exec_last_error>>

\* mutant: the Exec arm reports the exec whatever it returned
ExitEvent_AnyReturn(partial, pid, sval, time) ==
    CASE partial.tag = "Fork" /\ sval > 0 ->
            <<EvProcessChild(pid, sval, partial.kind)>>
      [] partial.tag = "Exec" ->
            <<EvProcessExec(pid, time, partial.args.path, partial.args.argv)>>
      [] OTHER -> <<>>

\* mutation of ExitEvent: the exec carries the time the trace began
ExitEvent_TraceStartTime(partial, pid, sval, time) ==
    CASE partial.tag = "Fork" /\ sval > 0 ->
            <<EvProcessChild(pid, sval, partial.kind)>>
      [] partial.tag = "Exec" /\ sval = 0 ->
            <<EvProcessExec(pid, 0, partial.args.path, partial.args.argv)>>
      [] OTHER -> <<>>

\* mutation of ExitEvent: a fork that returned 0 is reported as well
ExitEvent_ForkNonNegative(partial, pid, sval, time) ==
    CASE partial.tag = "Fork" /\ sval >= 0 ->
            <<EvProcessChild(pid, sval, partial.kind)>>
      [] partial.tag = "Exec" /\ sval = 0 ->
            <<EvProcessExec(pid, time, partial.args.path, partial.args.argv)>>
      [] OTHER -> <<>>

\* the event a syscall-exit stop emits for the stored classification, if any
ExitEvent(partial, pid, sval, time) ==
    CASE partial.tag = "Fork" /\ sval > 0 ->
            <<EvProcessChild(pid, sval, partial.kind)>>
      [] partial.tag = "Exec" /\ sval = 0 ->
            <<EvProcessExec(pid, time, partial.args.path, partial.args.argv)>>
      [] OTHER -> <<>>

\* the root-exec bookkeeping of the Exec arm
ExecAnySuccess(partial, pid, sval, any_success) ==
    IF partial.tag = "Exec" /\ ~any_success /\ pid = RootPid
    THEN (IF sval < 0 THEN any_success ELSE TRUE)
    ELSE any_success

\* mutant: only the first failure of the root is kept
ExecLastError_KeepFirst(partial, pid, sval, any_success, last_error) ==
    IF partial.tag = "Exec" /\ ~any_success /\ pid = RootPid
    THEN (IF sval < 0 /\ last_error = None THEN Some(-sval) ELSE last_error)
    ELSE last_error

ExecLastError(partial, pid, sval, any_success, last_error) ==
    IF partial.tag = "Exec" /\ ~any_success /\ pid = RootPid
    THEN (IF sval < 0 THEN Some(-sval) ELSE last_error)
    ELSE last_error

\* WaitStatus::PtraceSyscall(pid) with a stored entry: a syscall-exit stop
OnSyscallExitStop(pid, dt, sval, brk) ==
    /\ Waited(dt)
    /\ kentry[pid] # None
    /\ partial_syscalls[pid] # None
    /\ sval \in SvalsOf(kentry[pid])
    /\ LET partial == partial_syscalls[pid]
           calls == <<EvTime(clock')>> \o ExitEvent(partial, pid, sval, clock')
           reached == Passed(calls, brk, 1)
           rootexec == pid = RootPid /\ kentry[pid].exec
       IN
       /\ brk \in 0..Len(calls)
       /\ emitted' = Delivered(calls, brk)
       /\ partial_syscalls' =
            IF reached THEN [partial_syscalls EXCEPT ![pid] = None]
            ELSE partial_syscalls
       /\ root_exec_any_success' =
            IF reached THEN ExecAnySuccess(partial, pid, sval, root_exec_any_success)
            ELSE root_exec_any_success
       /\ root_exec_last_error' =
            IF reached
            THEN ExecLastError(partial, pid, sval, root_exec_any_success,
                               root_exec_last_error)
            ELSE root_exec_last_error
       /\ result' = OnBreak(brk, None)
       /\ pc' = PcAfter(brk, "loop")
       /\ khist' =
            [khist EXCEPT
               !.brk = brk,
               !.root_exec_ok = @ \/ (rootexec /\ sval = 0),
               !.root_last_fail = IF rootexec /\ sval < 0 THEN Some(-sval) ELSE @,
               !.other_fail =
                    IF pid # RootPid /\ kentry[pid].exec /\ sval < 0
                    THEN Some(-sval) ELSE @]
    /\ klast' = KStop("exit", pid, sval, kentry[pid])
    /\ kentry' = [kentry EXCEPT ![pid] = None]
    /\ UNCHANGED <<active_processes>>

\* WaitStatus::PtraceEvent(pid, _, _): ignored, the task is resumed
OnPtraceEventStop(pid, dt, brk) ==
    /\ Waited(dt)
    /\ LET calls == <<EvTime(clock')>> IN
       /\ brk \in 0..Len(calls)
       /\ emitted' = Delivered(calls, brk)
       /\ result' = OnBreak(brk, None)
       /\ pc' = PcAfter(brk, "loop")
       /\ khist' = [khist EXCEPT !.brk = brk]
    /\ klast' = NoExit
    /\ UNCHANGED <<partial_syscalls, active_processes, root_exec_any_success,
                   root_exec_last_error, kentry>>

\* mutation of OnExitedStop: the end of any task ends the loop
OnExitedStop_AnyTaskEnds(pid, dt, brk) ==
    /\ Waited(dt)
    /\ LET calls == <<EvTime(clock'), EvProcessExit(pid, clock')>>
           rootdone == brk = 0
       IN
       /\ brk \in 0..Len(calls)
       /\ emitted' = Delivered(calls, brk)
       /\ partial_syscalls' =
            IF brk = 0 THEN [partial_syscalls EXCEPT ![pid] = None]
            ELSE partial_syscalls
       /\ result' =
            IF rootdone
            THEN FinalResult(root_exec_any_success, root_exec_last_error)
            ELSE OnBreak(brk, None)
       /\ pc' = IF rootdone THEN "done" ELSE PcAfter(brk, "loop")
       /\ khist' = [khist EXCEPT !.brk = brk]
    /\ klast' = NoExit
    /\ kentry' = [kentry EXCEPT ![pid] = None]
    /\ UNCHANGED <<active_processes, root_exec_any_success, root_exec_last_error>>

\* mutation of OnExitedStop: the table keeps the entry of the task that ended
OnExitedStop_KeepEntry(pid, dt, brk) ==
    /\ Waited(dt)
    /\ LET calls == <<EvTime(clock'), EvProcessExit(pid, clock')>>
           rootdone == brk = 0 /\ pid = RootPid
       IN
       /\ brk \in 0..Len(calls)
       /\ emitted' = Delivered(calls, brk)
       /\ partial_syscalls' = partial_syscalls
       /\ result' =
            IF rootdone
            THEN FinalResult(root_exec_any_success, root_exec_last_error)
            ELSE OnBreak(brk, None)
       /\ pc' = IF rootdone THEN "done" ELSE PcAfter(brk, "loop")
       /\ khist' = [khist EXCEPT !.brk = brk]
    /\ klast' = NoExit
    /\ kentry' = [kentry EXCEPT ![pid] = None]
    /\ UNCHANGED <<active_processes, root_exec_any_success, root_exec_last_error>>

\* WaitStatus::Exited(pid, _) | WaitStatus::Signaled(pid, _, _)
OnExitedStop(pid, dt, brk) ==
    /\ Waited(dt)
    /\ LET calls == <<EvTime(clock'), EvProcessExit(pid, clock')>>
           rootdone == brk = 0 /\ pid = RootPid
       IN
       /\ brk \in 0..Len(calls)
       /\ emitted' = Delivered(calls, brk)
       /\ partial_syscalls' =
            IF brk = 0 THEN [partial_syscalls EXCEPT ![pid] = None]
            ELSE partial_syscalls
       /\ result' =
            IF rootdone
            THEN FinalResult(root_exec_any_success, root_exec_last_error)
            ELSE OnBreak(brk, None)
       /\ pc' = IF rootdone THEN "done" ELSE PcAfter(brk, "loop")
       /\ khist' = [khist EXCEPT !.brk = brk]
    /\ klast' = NoExit
    /\ kentry' = [kentry EXCEPT ![pid] = None]
    /\ UNCHANGED <<active_processes, root_exec_any_success, root_exec_last_error>>

\* mutation of OnStoppedStop: every SIGSTOP or SIGTRAP stop starts a task
OnStoppedStop_AlwaysFresh(pid, signal, dt, brk) ==
    /\ Waited(dt)
    /\ LET fresh == signal \in {"SIGSTOP", "SIGTRAP"}
           calls == <<EvTime(clock')>> \o
                    (IF fresh THEN <<EvProcessStart(pid, clock')>> ELSE <<>>)
       IN
       /\ brk \in 0..Len(calls)
       /\ emitted' = Delivered(calls, brk)
       /\ active_processes' =
            IF fresh /\ brk = 0 THEN active_processes \cup {pid}
            ELSE active_processes
       /\ result' = OnBreak(brk, None)
       /\ pc' = PcAfter(brk, "loop")
       /\ khist' = [khist EXCEPT !.brk = brk]
    /\ klast' = NoExit
    /\ UNCHANGED <<partial_syscalls, root_exec_any_success, root_exec_last_error,
                   kentry>>

\* mutation of OnStoppedStop: a new task starts at time 0 like the root
OnStoppedStop_StartAtZero(pid, signal, dt, brk) ==
    /\ Waited(dt)
    /\ LET fresh == signal \in {"SIGSTOP", "SIGTRAP"} /\ pid \notin active_processes
           calls == <<EvTime(clock')>> \o
                    (IF fresh THEN <<EvProcessStart(pid, 0)>> ELSE <<>>)
       IN
       /\ brk \in 0..Len(calls)
       /\ emitted' = Delivered(calls, brk)
       /\ active_processes' =
            IF fresh /\ brk = 0 THEN active_processes \cup {pid}
            ELSE active_processes
       /\ result' = OnBreak(brk, None)
       /\ pc' = PcAfter(brk, "loop")
       /\ khist' = [khist EXCEPT !.brk = brk]
    /\ klast' = NoExit
    /\ UNCHANGED <<partial_syscalls, root_exec_any_success, root_exec_last_error,
                   kentry>>

\* WaitStatus::Stopped(pid, signal): a signal-delivery stop
OnStoppedStop(pid, signal, dt, brk) ==
    /\ Waited(dt)
    /\ LET fresh == signal \in {"SIGSTOP", "SIGTRAP"} /\ pid \notin active_processes
           calls == <<EvTime(clock')>> \o
                    (IF fresh THEN <<EvProcessStart(pid, clock')>> ELSE <<>>)
       IN
       /\ brk \in 0..Len(calls)
       /\ emitted' = Delivered(calls, brk)
       /\ active_processes' =
            IF fresh /\ brk = 0 THEN active_processes \cup {pid}
            ELSE active_processes
       /\ result' = OnBreak(brk, None)
       /\ pc' = PcAfter(brk, "loop")
       /\ khist' = [khist EXCEPT !.brk = brk]
    /\ klast' = NoExit
    /\ UNCHANGED <<partial_syscalls, root_exec_any_success, root_exec_last_error,
                   kentry>>

\* ---- the tracer on its own: nothing else moves ----
TraceStart(brk) ==
    /\ OnTraceStart(brk)
    /\ UNCHANGED rlvars

SyscallEntryStop(pid, dt, info, brk) ==
    /\ OnSyscallEntryStop(pid, dt, info, brk)
    /\ UNCHANGED rlvars

SyscallExitStop(pid, dt, sval, brk) ==
    /\ OnSyscallExitStop(pid, dt, sval, brk)
    /\ UNCHANGED rlvars

PtraceEventStop(pid, dt, brk) ==
    /\ OnPtraceEventStop(pid, dt, brk)
    /\ UNCHANGED rlvars

ExitedStop(pid, dt, brk) ==
    /\ OnExitedStop(pid, dt, brk)
    /\ UNCHANGED rlvars

StoppedStop(pid, signal, dt, brk) ==
    /\ OnStoppedStop(pid, signal, dt, brk)
    /\ UNCHANGED rlvars

Ticks == {0, 1}

TraceNext ==
    \/ \E brk \in 0..2 : TraceStart(brk)
    \/ \E pid \in Pids, dt \in Ticks, info \in SysInputs, brk \in 0..2 :
            SyscallEntryStop(pid, dt, info, brk)
    \/ \E pid \in Pids, dt \in Ticks, sval \in ExecSvals \cup OtherSvals, brk \in 0..2 :
            SyscallExitStop(pid, dt, sval, brk)
    \/ \E pid \in Pids, dt \in Ticks, brk \in 0..2 : PtraceEventStop(pid, dt, brk)
    \/ \E pid \in Pids, dt \in Ticks, brk \in 0..2 : ExitedStop(pid, dt, brk)
    \/ \E pid \in Pids, sig \in Signals, dt \in Ticks, brk \in 0..2 :
            StoppedStop(pid, sig, dt, brk)

SpecTrace == TraceInit /\ [][TraceNext]_vars

\* ---- syscall stops that reach the tracer out of step ----
\* rax, which ptrace_syscall_info_exit reads as sval, holds -ENOSYS at a
\* syscall-entry stop
ENOSYS == 38

\* WaitStatus::PtraceSyscall(pid) with no stored entry while the kernel reports
\* the EXIT of `info` (orig_rax and the argument registers still hold it): the
\* table decides, so the entry arm runs; the return value is not read
SyscallExitStopUnstored(pid, dt, info, brk) ==
    /\ Waited(dt)
    /\ partial_syscalls[pid] = None
    /\ kentry[pid] # None => KernelView(info) = kentry[pid]
    /\ LET calls == <<EvTime(clock')>> IN
       /\ brk \in 0..Len(calls)
       /\ emitted' = Delivered(calls, brk)
       /\ partial_syscalls' =
            IF brk = 0 THEN [partial_syscalls EXCEPT ![pid] = ClassifyEntry(info)]
            ELSE partial_syscalls
       /\ result' = OnBreak(brk, None)
       /\ pc' = PcAfter(brk, "loop")
       /\ khist' = [khist EXCEPT !.brk = brk]
    /\ kentry' = [kentry EXCEPT ![pid] = None]
    /\ klast' = KStop("unstored", pid, 0, KernelView(info))
    /\ UNCHANGED <<active_processes, root_exec_any_success, root_exec_last_error>>
    /\ UNCHANGED rlvars

\* WaitStatus::PtraceSyscall(pid) with a stored entry while the kernel reports
\* the ENTRY of `info`: the exit arm runs on rax, which holds -ENOSYS there
SyscallEntryStopStored(pid, dt, info, brk) ==
    /\ Waited(dt)
    /\ kentry[pid] = None
    /\ partial_syscalls[pid] # None
    /\ LET partial == partial_syscalls[pid]
           sval == -ENOSYS
           calls == <<EvTime(clock')>> \o ExitEvent(partial, pid, sval, clock')
           reached == Passed(calls, brk, 1)
       IN
       /\ brk \in 0..Len(calls)
       /\ emitted' = Delivered(calls, brk)
       /\ partial_syscalls' =
            IF reached THEN [partial_syscalls EXCEPT ![pid] = None]
            ELSE partial_syscalls
       /\ root_exec_any_success' =
            IF reached THEN ExecAnySuccess(partial, pid, sval, root_exec_any_success)
            ELSE root_exec_any_success
       /\ root_exec_last_error' =
            IF reached
            THEN ExecLastError(partial, pid, sval, root_exec_any_success,
                               root_exec_last_error)
            ELSE root_exec_last_error
       /\ result' = OnBreak(brk, None)
       /\ pc' = PcAfter(brk, "loop")
       /\ khist' = [khist EXCEPT !.brk = brk]
    /\ kentry' = [kentry EXCEPT ![pid] = KernelView(info)]
    /\ klast' = KStop("stored", pid, -ENOSYS, KernelView(info))
    /\ UNCHANGED <<active_processes>>
    /\ UNCHANGED rlvars

\* the syscalls whose stops may arrive out of step
UnstoredInputs == {i \in SysInputs : i.nr \in {"fork", "read", "execve"}}

UnstoredNext ==
    \/ \E brk \in 0..1 : TraceStart(brk)
    \/ \E pid \in Pids, dt \in Ticks, info \in UnstoredInputs, brk \in 0..1 :
            SyscallEntryStop(pid, dt, info, brk)
    \/ \E pid \in Pids, dt \in Ticks, sval \in ExecSvals \cup OtherSvals, brk \in 0..1 :
            SyscallExitStop(pid, dt, sval, brk)
    \/ \E pid \in Pids, dt \in Ticks, brk \in 0..1 : ExitedStop(pid, dt, brk)
    \/ \E pid \in Pids, dt \in Ticks, info \in UnstoredInputs, brk \in 0..1 :
            SyscallExitStopUnstored(pid, dt, info, brk)
    \/ \E pid \in Pids, dt \in Ticks, info \in UnstoredInputs, brk \in 0..1 :
            SyscallEntryStopStored(pid, dt, info, brk)

SpecUnstored == TraceInit /\ [][UnstoredNext]_vars

\* ---- the classification on its own: the registers are given beforehand ----
\* registers and memory a task can show at a syscall-entry stop
ClassifyInputs ==
       {SysInfo(nr, <<0, 0, 0, 0>>, TraceeMem(0, "")) :
            nr \in {"fork", "vfork", "exit", "exit_group", "read", "unknown"}}
  \cup {SysInfo("clone", <<f, 0, 0, 0>>, TraceeMem(0, "")) :
            f \in {0, 17, CLONE_THREAD - 1, CLONE_THREAD, CLONE_THREAD + 256,
                   2 * CLONE_THREAD}}
  \cup {SysInfo("clone3", <<1, sz, 0, 0>>, TraceeMem(w, "")) :
            sz \in {0, 7, 8, 88},
            w \in {0, CLONE_THREAD + 256, 2 * CLONE_THREAD}}
  \cup {SysInfo("execve", <<1, 2, 3, 0>>, TraceeMem(0, "/usr/local/bin/foo")),
        SysInfo("execveat", <<3, 1, 2, 3>>, TraceeMem(0, "/usr/bin/foo"))}

\* the main loop is running; kern: what each task will show at its next stop
ClassifyInit ==
    /\ pc = "loop"
    /\ partial_syscalls = [p \in Pids |-> None]
    /\ active_processes = {RootPid}
    /\ root_exec_any_success = FALSE
    /\ root_exec_last_error = None
    /\ emitted = <<EvProcessStart(RootPid, 0)>>
    /\ result = None
    /\ clock = 0
    /\ kentry = [p \in Pids |-> None]
    /\ klast = NoExit
    /\ khist = [root_exec_ok |-> FALSE, root_last_fail |-> None,
                other_fail |-> None, brk |-> 0]
    /\ rec = None /\ rec2 = None /\ rpanic = FALSE /\ rlast = <<>> /\ rfirst = None
    /\ placed = None
    /\ kern \in [Pids -> ClassifyInputs]
    /\ cancel = FALSE /\ chan = <<>> /\ sent = <<>>
    /\ cpc = "idle" /\ slot = None /\ data = None

\* the syscall-entry stop of a task, with the registers it shows
ClassifyStop(pid, dt) ==
    /\ OnSyscallEntryStop(pid, dt, kern[pid], 0)
    /\ UNCHANGED rlvars

ClassifyNext == \E pid \in Pids, dt \in Ticks : ClassifyStop(pid, dt)

SpecClassify == ClassifyInit /\ [][ClassifyNext]_vars

(***************************************************************************)
(*                        TRACER: the claims                               *)
(***************************************************************************)

Broke == khist.brk # 0
\* record_trace returned after the root's exit status, no callback said Break
RootExited == pc = "done" /\ ~Broke

\* C2: for every sequence of stops ending with the root's exit and no Break,
\* record_trace returns SpawnFailed(errno) iff no exec of the root ever
\* completed successfully, and Ok otherwise (also when the root never
\* attempted an exec).
C2_SpawnFailedIffNoExecSuccess ==
    RootExited =>
        /\ result.tag \in {"Ok", "SpawnFailed"}
        /\ (result.tag = "SpawnFailed") <=> ~khist.root_exec_ok

\* C3: the errno of SpawnFailed is the magnitude of the return value of the
\* last failing exec of the root task; exec failures of other tasks and root
\* failures after a root success do not affect the result.
C3_SpawnFailedCarriesLastRootErrno ==
    /\ result.tag = "SpawnFailed" =>
            /\ khist.root_last_fail = Some(result.errno)
            /\ -result.errno \in ExecSvals
            /\ ~khist.root_exec_ok
    /\ (RootExited /\ khist.root_exec_ok) => result = ResOk

\* a run that ended in SpawnFailed although another task failed an exec with
\* a different errno
C3_Witness ==
    /\ result.tag = "SpawnFailed"
    /\ khist.other_fail # None
    /\ khist.other_fail # khist.root_last_fail

ExecEventsOf(evs) == {i \in 1..Len(evs) : evs[i].tag = "ProcessExec"}
\* the last stop was the exit of an exec that returned 0, and the callback
\* did not stop the tracer at the Time event of that stop
ExecReturnedZero ==
    /\ klast.kind = "exit"
    /\ klast.view.exec
    /\ klast.sval = 0
    /\ ~(Broke /\ Len(emitted) = 1)

\* C4: a ProcessExec event is emitted for a task exactly when an
\* execve/execveat of that task returns 0, and carries the path and argv the
\* kernel was given at that syscall's entry; an exec returning a negative value
\* emits nothing, and a failing root attempt followed by a successful one
\* gives an Ok result.
C4_ExecEventIffReturnZero ==
    /\ \A i \in ExecEventsOf(emitted) :
            /\ ExecReturnedZero
            /\ emitted[i] = EvProcessExec(klast.pid, clock, klast.view.path,
                                          klast.view.argv)
    /\ ExecReturnedZero => Cardinality(ExecEventsOf(emitted)) = 1
    /\ (RootExited /\ khist.root_last_fail # None /\ khist.root_exec_ok)
            => result = ResOk

\* the root's second attempt succeeded after a failed first one, and only the
\* successful one is reported
C4_Witness ==
    /\ khist.root_last_fail # None
    /\ root_exec_last_error = khist.root_last_fail
    /\ klast.kind = "exit" /\ klast.pid = RootPid /\ klast.sval = 0
    /\ emitted = <<EvTime(clock),
                   EvProcessExec(RootPid, clock, "/usr/bin/foo",
                                 <<"/usr/bin/foo", "arg">>)>>

\* C5: once the callback returns Break, no further event is handed to it and
\* record_trace returns Ok(()), whether or not the root completed an exec.
C5_BreakStopsWithOk ==
    Broke => /\ pc = "done"
             /\ result = ResOk
             /\ Len(emitted) = khist.brk

\* Break before the root completed (or even attempted) any exec
C5_Witness ==
    /\ Broke /\ result = ResOk
    /\ ~khist.root_exec_ok
    /\ root_exec_last_error # None

(***************************************************************************)
(*                              RECORDER                                   *)
(***************************************************************************)

\* ---- bounds of the recorder model ----
MaxRecSize == 3     \* entries + execs + child edges a Recording may hold

\* The pids of the events reported: the two the tracer model reports.  report
\* treats a pid as a map key only, and each of its arms names at most two.
RecPids == Pids
\* Two event times.  report stores a time and never compares or computes with
\* one, so two distinct values show every behaviour a time can cause: an end
\* that is set or overwritten, an exec at another time than the start.
RecTimes == {0, 1}
Kinds == {"Process", "Thread"}
\* the wall-clock instant a trace starts at
Instants == {"i1"}

\* ---- the events Recording::report matches on ----
RTraceStart(time) == [tag |-> "TraceStart", time |-> time]
RTraceEnd == [tag |-> "TraceEnd"]
RProcessStart(pid, time) == [tag |-> "ProcessStart", pid |-> pid, time |-> time]
RProcessExit(pid, time) == [tag |-> "ProcessExit", pid |-> pid, time |-> time]
RProcessChild(parent, child, kind) ==
    [tag |-> "ProcessChild", parent |-> parent, child |-> child, kind |-> kind]
RProcessExec(pid, time, path, cwd, argv) ==
    [tag |-> "ProcessExec", pid |-> pid, time |-> time, path |-> path,
     cwd |-> cwd, argv |-> argv]

\* struct ProcessInfo / TimeRange / ProcessExec
ProcessInfo(pid, start) ==
    [pid |-> pid, time |-> [start |-> start, end |-> None],
     execs |-> <<>>, children |-> <<>>]
ProcessExec(time, path, cwd, argv) ==
    [time |-> time, cwd |-> cwd, path |-> path, argv |-> argv]

\* Recording::new
Recording_new ==
    [time_start |-> None, running |-> TRUE, root_pid |-> None, processes |-> <<>>]

\* ---- IndexMap<Pid, ProcessInfo>: a sequence of entries in insertion order ----
\* the position of the key, 0 when absent (get_index_of)
IndexOf(procs, pid) ==
    IF \E i \in 1..Len(procs) : procs[i].pid = pid
    THEN CHOOSE i \in 1..Len(procs) : procs[i].pid = pid
    ELSE 0
Contains(procs, pid) == IndexOf(procs, pid) # 0
\* IndexMap::get (the caller has checked the key)
Get(procs, pid) == procs[IndexOf(procs, pid)]
\* IndexMap::insert: replaces the value in place when the key exists, appends
\* otherwise
MapInsert(procs, pid, info) ==
    IF Contains(procs, pid)
    THEN [procs EXCEPT ![IndexOf(procs, pid)] = info]
    ELSE Append(procs, info)

RecOk(r) == [ok |-> TRUE, rec |-> r]
RecPanic(r) == [ok |-> FALSE, rec |-> r]

\* mutation of insert_first: a plain insert, the assertion left out
insert_first_Silent(r, pid, info) ==
    RecOk([r EXCEPT !.processes = MapInsert(r.processes, pid, info)])

\* MapExt::insert_first on the processes map: insert, then assert that the
\* key was new
insert_first(r, pid, info) ==
    LET r1 == [r EXCEPT !.processes = MapInsert(r.processes, pid, info)]
    IN IF Contains(r.processes, pid) THEN RecPanic(r1) ELSE RecOk(r1)

\* mutation of get_mut_unwrap: entry(pid).or_insert_with(..), which makes up an
\* entry for an unknown pid
get_mut_OrInsert(r, pid) ==
    LET r1 == IF Contains(r.processes, pid) THEN r
              ELSE [r EXCEPT !.processes = Append(@, ProcessInfo(pid, 0))]
    IN [ok |-> TRUE, rec |-> r1, at |-> IndexOf(r1.processes, pid)]

\* self.processes.get_mut(&pid).unwrap(): the position of the entry, a panic
\* when there is none
get_mut_unwrap(r, pid) ==
    [ok |-> Contains(r.processes, pid), rec |-> r, at |-> IndexOf(r.processes, pid)]

SetEnd(info, time) == [info EXCEPT !.time.end = Some(time)]
\* mutation of PushChild: the edge is pushed twice
PushChild_Twice(info, kind, child) ==
    [info EXCEPT !.children = Append(Append(@, [kind |-> kind, pid |-> child]),
                                     [kind |-> kind, pid |-> child])]

PushChild(info, kind, child) ==
    [info EXCEPT !.children = Append(@, [kind |-> kind, pid |-> child])]
\* mutation of PushExec: only the latest exec is kept
PushExec_KeepLatest(info, exec) == [info EXCEPT !.execs = <<exec>>]
PushExec(info, exec) == [info EXCEPT !.execs = Append(@, exec)]

\* mutation of ElectRoot: the latest ProcessStart takes the root
ElectRoot_Latest(root_pid, pid) == Some(pid)

\* if self.root_pid.is_none() { self.root_pid = Some(pid) }
ElectRoot(root_pid, pid) == IF root_pid = None THEN Some(pid) ELSE root_pid

\* mutation of OnProcessStart: the start is stored as a wall-clock time, the
\* trace's time_start with the event's offset
OnProcessStart_WallClock(r, pid, time) ==
    LET ins == insert_first(r, pid, ProcessInfo(pid, <<r.time_start, time>>))
    IN IF ~ins.ok THEN ins
       ELSE RecOk([ins.rec EXCEPT !.root_pid = ElectRoot(@, pid)])

\* the TraceEvent::ProcessStart arm of report
OnProcessStart(r, pid, time) ==
    LET ins == insert_first(r, pid, ProcessInfo(pid, time))
    IN IF ~ins.ok THEN ins
       ELSE RecOk([ins.rec EXCEPT !.root_pid = ElectRoot(@, pid)])

\* the TraceEvent::ProcessExit arm of report
OnProcessExit(r, pid, time) ==
    LET got == get_mut_unwrap(r, pid)
    IN IF ~got.ok THEN RecPanic(got.rec)
       ELSE RecOk([got.rec EXCEPT !.processes[got.at] = SetEnd(@, time)])

\* mutation of OnProcessChild: the child has to have an entry too
OnProcessChild_ChildMustExist(r, parent, child, kind) ==
    LET got == get_mut_unwrap(r, parent)
    IN IF ~got.ok \/ ~Contains(r.processes, child) THEN RecPanic(got.rec)
       ELSE RecOk([got.rec EXCEPT !.processes[got.at] = PushChild(@, kind, child)])

\* the TraceEvent::ProcessChild arm of report
OnProcessChild(r, parent, child, kind) ==
    LET got == get_mut_unwrap(r, parent)
    IN IF ~got.ok THEN RecPanic(got.rec)
       ELSE RecOk([got.rec EXCEPT !.processes[got.at] = PushChild(@, kind, child)])

\* the TraceEvent::ProcessExec arm of report
OnProcessExec(r, pid, exec) ==
    LET got == get_mut_unwrap(r, pid)
    IN IF ~got.ok THEN RecPanic(got.rec)
       ELSE RecOk([got.rec EXCEPT !.processes[got.at] = PushExec(@, exec)])

\* Recording::report
Report(r, ev) ==
    CASE ev.tag = "TraceStart" -> RecOk([r EXCEPT !.time_start = Some(ev.time)])
      [] ev.tag = "TraceEnd" -> RecOk([r EXCEPT !.running = FALSE])
      [] ev.tag = "ProcessStart" -> OnProcessStart(r, ev.pid, ev.time)
      [] ev.tag = "ProcessExit" -> OnProcessExit(r, ev.pid, ev.time)
      [] ev.tag = "ProcessChild" -> OnProcessChild(r, ev.parent, ev.child, ev.kind)
      [] ev.tag = "ProcessExec" ->
            OnProcessExec(r, ev.pid, ProcessExec(ev.time, ev.path, ev.cwd, ev.argv))

RECURSIVE SumSizes(_, _)
SumSizes(procs, i) ==
    IF i > Len(procs) THEN 0
    ELSE 1 + Len(procs[i].execs) + Len(procs[i].children) + SumSizes(procs, i + 1)
\* how much a Recording holds
RecSize(r) == SumSizes(r.processes, 1)

NoEvent == [tag |-> "NoEvent"]

RecInit ==
    /\ rec = Recording_new
    /\ rec2 = Recording_new
    /\ rpanic = FALSE
    /\ rlast = NoEvent
    /\ rfirst = None
    /\ placed = None
    /\ pc = "idle" /\ partial_syscalls = <<>> /\ active_processes = {}
    /\ root_exec_any_success = FALSE /\ root_exec_last_error = None
    /\ emitted = <<>> /\ result = None /\ clock = 0
    /\ kentry = <<>> /\ klast = NoExit /\ khist = None
    /\ kern = None /\ cancel = FALSE /\ chan = <<>> /\ sent = <<>>
    /\ cpc = "idle" /\ slot = None /\ data = None

\* the instant the twin Recording is told instead
OtherInstant(i) == "i2"

\* the event with its times left out
Untimed(ev) ==
    [tag |-> ev.tag,
     pid |-> IF ev.tag \in {"TraceStart", "TraceEnd"} THEN 0
             ELSE IF ev.tag = "ProcessChild" THEN ev.parent ELSE ev.pid,
     child |-> IF ev.tag = "ProcessChild" THEN ev.child ELSE 0]

\* one call of report; the twin Recording is handed ev2 (ev but for the
\* instant of a TraceStart)
Reported(ev, ev2) ==
    /\ LET r == Report(rec, ev)
       IN /\ rec' = r.rec
          /\ rpanic' = ~r.ok
          /\ rlast' = IF r.ok THEN NoEvent ELSE Untimed(ev)
    /\ rec2' = Report(rec2, ev2).rec
    /\ rfirst' = IF ev.tag = "ProcessStart" /\ rfirst = None THEN Some(ev.pid)
                 ELSE rfirst
    /\ UNCHANGED <<tvars, placed, pvars>>

\* the event may make the Recording grow only within the bound
Room == RecSize(rec) < MaxRecSize

\* The one sender of TraceStart and TraceEnd (record_poll) sends TraceStart
\* before anything else and returns after TraceEnd; the ptrace tracer sends
\* neither.  So TraceStart reaches a fresh Recording only, and no event
\* follows a TraceEnd.
ReportTraceStart(time) ==
    /\ ~rpanic
    /\ rec = Recording_new
    /\ Reported(RTraceStart(time), RTraceStart(OtherInstant(time)))

ReportTraceEnd ==
    /\ ~rpanic
    /\ rec.running
    /\ Reported(RTraceEnd, RTraceEnd)

ReportProcessStart(pid, time) ==
    /\ ~rpanic
    /\ rec.running
    /\ Room
    /\ Reported(RProcessStart(pid, time), RProcessStart(pid, time))

ReportProcessExit(pid, time) ==
    /\ ~rpanic
    /\ rec.running
    /\ Reported(RProcessExit(pid, time), RProcessExit(pid, time))

ReportProcessChild(parent, child, kind) ==
    /\ ~rpanic
    /\ rec.running
    /\ Room
    /\ Reported(RProcessChild(parent, child, kind), RProcessChild(parent, child, kind))

ReportProcessExec(pid, time) ==
    /\ ~rpanic
    /\ rec.running
    /\ Room
    /\ LET ev == RProcessExec(pid, time, "/bin/true", Some("/"), <<"/bin/true">>)
       IN Reported(ev, ev)

RecNext ==
    \/ \E t \in Instants : ReportTraceStart(t)
    \/ ReportTraceEnd
    \/ \E pid \in RecPids, t \in RecTimes : ReportProcessStart(pid, t)
    \/ \E pid \in RecPids, t \in RecTimes : ReportProcessExit(pid, t)
    \/ \E p \in RecPids, c \in RecPids, k \in Kinds : ReportProcessChild(p, c, k)
    \/ \E pid \in RecPids, t \in RecTimes : ReportProcessExec(pid, t)

SpecRec == RecInit /\ [][RecNext]_vars

\* ---- claims about Recording::report ----
\* the pids that have an entry
Present(r) == {p \in RecPids : Contains(r.processes, p)}
AnExec(t) == RProcessExec(0, t, "/bin/true", Some("/"), <<"/bin/true">>)

\* C6: root_pid is unset until the first ProcessStart is reported, from then
\* on it is that event's pid, whatever is reported later (further
\* ProcessStart events included)
C6_RootPidIsFirstStart == rec.root_pid = rfirst

\* a second task has started and the root is still the first one
C6_Witness ==
    /\ ~rpanic
    /\ Len(rec.processes) = 2
    /\ rfirst = Some(rec.processes[1].pid)
    /\ rec.root_pid = Some(rec.processes[1].pid)
    /\ rec.processes[2].pid # rec.processes[1].pid

\* C7: report(ProcessStart{pid}) panics when pid already has an entry; it
\* neither adds a second entry for the pid nor returns as if the entry had
\* been replaced, so no Recording ever holds two entries of one pid
C7_DuplicateStartPanics ==
    /\ \A i, j \in 1..Len(rec.processes) :
          rec.processes[i].pid = rec.processes[j].pid => i = j
    /\ ~rpanic =>
          \A pid \in Present(rec), t \in RecTimes :
              LET r == Report(rec, RProcessStart(pid, t))
              IN ~r.ok /\ Len(r.rec.processes) = Len(rec.processes)
    /\ rpanic /\ rlast.tag = "ProcessStart" => rlast.pid \in Present(rec)

\* a ProcessStart for a pid that had an entry was reported, and panicked
C7_Witness ==
    /\ rpanic
    /\ rlast.tag = "ProcessStart"
    /\ rlast.pid \in Present(rec)
    /\ Len(rec.processes) = 1

\* C8: report of ProcessExit, ProcessExec or ProcessChild whose pid (the
\* parent, for ProcessChild) has no entry panics and leaves the Recording
\* without an entry for that pid
C8_UnknownPidPanics ==
    /\ ~rpanic =>
          \A ev \in UNION {{RProcessExit(pid, t) : t \in RecTimes}
                            \cup {[AnExec(t) EXCEPT !.pid = pid] : t \in RecTimes}
                            \cup {RProcessChild(pid, c, k) : c \in RecPids, k \in Kinds}
                            : pid \in RecPids \ Present(rec)} :
              LET r == Report(rec, ev)
              IN ~r.ok /\ r.rec = rec
    /\ rpanic /\ rlast.tag \in {"ProcessExit", "ProcessExec", "ProcessChild"}
          => rlast.pid \notin Present(rec)

\* a ProcessChild with an unknown parent was reported to a Recording that
\* holds another task, and panicked
C8_Witness ==
    /\ rpanic
    /\ rlast.tag = "ProcessChild"
    /\ rlast.pid \notin Present(rec)
    /\ Len(rec.processes) = 1

\* C9: with P present and Q absent, ProcessStart(Q) then ProcessChild(P,Q,kind)
\* and the same two events the other way round both go through without a
\* panic and leave the same Recording
C9_StartAndChildCommute ==
    ~rpanic =>
        \A p \in Present(rec), q \in RecPids \ Present(rec), k \in Kinds, t \in RecTimes :
            LET s1 == Report(rec, RProcessStart(q, t))
                s2 == Report(s1.rec, RProcessChild(p, q, k))
                c1 == Report(rec, RProcessChild(p, q, k))
                c2 == Report(c1.rec, RProcessStart(q, t))
            IN /\ s1.ok /\ s2.ok /\ c1.ok /\ c2.ok
               /\ s2.rec = c2.rec

\* the child was reported first: a parent lists a child that has no entry
\* yet, and nothing panicked
C9_Witness ==
    /\ ~rpanic
    /\ \E i \in 1..Len(rec.processes) :
          \E j \in 1..Len(rec.processes[i].children) :
              rec.processes[i].children[j].pid \notin Present(rec)

MaxFeedSize == 4    \* entries + execs + child edges recorded in one trace

\* ---- the kernel of one session: task ids are not reused ----
\* life of a task: "unborn", "born" (created by a fork, its first stop still
\* to come), "alive", "dead"; kid: the task the fork in flight created
KernInit ==
    [p \in Pids |-> [life |-> IF p = RootPid THEN "alive" ELSE "unborn", kid |-> 0]]

\* the syscalls that create a task
ForkLike(info) == info.nr \in {"fork", "vfork", "clone", "clone3"}

\* ---- the callback: every event goes to Recording::report ----
\* the tracer's event as the recorder's TraceEvent (no cwd under ptrace);
\* Time carries nothing to record
ToRecorder(ev) ==
    CASE ev.tag = "ProcessStart" -> <<RProcessStart(ev.pid, ev.time)>>
      [] ev.tag = "ProcessExit" -> <<RProcessExit(ev.pid, ev.time)>>
      [] ev.tag = "ProcessChild" -> <<RProcessChild(ev.parent, ev.child, ev.kind)>>
      [] ev.tag = "ProcessExec" ->
            <<RProcessExec(ev.pid, ev.time, ev.path, None, ev.argv)>>
      [] OTHER -> <<>>

\* report called with the events evs[i..], up to a panic
RECURSIVE ReportEach(_, _, _)
ReportEach(res, evs, i) ==
    IF i > Len(evs) \/ ~res.ok THEN res
    ELSE LET conv == ToRecorder(evs[i])
         IN ReportEach(IF conv = <<>> THEN res ELSE Report(res.rec, conv[1]),
                       evs, i + 1)

\* the events of this loop iteration reach the Recording
Fed ==
    /\ LET res == ReportEach(RecOk(rec), emitted', 1)
       IN rec' = res.rec /\ rpanic' = ~res.ok
    /\ UNCHANGED <<rec2, rlast, rfirst, placed, cancel, chan, sent, cpc, slot, data>>

FeedInit ==
    /\ pc = "start"
    /\ partial_syscalls = [p \in Pids |-> None]
    /\ active_processes = {}
    /\ root_exec_any_success = FALSE
    /\ root_exec_last_error = None
    /\ emitted = <<>>
    /\ result = None
    /\ clock = 0
    /\ kentry = [p \in Pids |-> None]
    /\ klast = NoExit
    /\ khist = [root_exec_ok |-> FALSE, root_last_fail |-> None,
                other_fail |-> None, brk |-> 0]
    /\ rec = Recording_new /\ rec2 = Recording_new
    /\ rpanic = FALSE /\ rlast = NoEvent /\ rfirst = None
    /\ placed = None
    /\ kern = KernInit
    /\ cancel = FALSE /\ chan = <<>> /\ sent = <<>>
    /\ cpc = "idle" /\ slot = None /\ data = None

FeedTraceStart ==
    /\ ~rpanic
    /\ OnTraceStart(0)
    /\ Fed
    /\ UNCHANGED kern

\* a live task enters a syscall; a fork may create the task kid
FeedSyscallEntryStop(pid, dt, info, kid) ==
    /\ ~rpanic
    /\ kern[pid].life = "alive"
    /\ kid # 0 => ForkLike(info) /\ kern[kid].life = "unborn"
    /\ OnSyscallEntryStop(pid, dt, info, 0)
    /\ kern' = [p \in Pids |->
                  IF p = pid THEN [kern[p] EXCEPT !.kid = kid]
                  ELSE IF p = kid THEN [kern[p] EXCEPT !.life = "born"]
                  ELSE kern[p]]
    /\ Fed

\* the syscall returns: a fork with the id of the task it created
FeedSyscallExitStop(pid, dt, sval) ==
    /\ ~rpanic
    /\ kern[pid].life = "alive"
    /\ kentry[pid] # None
    /\ IF kentry[pid].exec THEN sval = 0 => RecSize(rec) < MaxFeedSize
       ELSE IF partial_syscalls[pid].tag = "Fork"
            THEN sval = (IF kern[pid].kid # 0 THEN kern[pid].kid ELSE -EAGAIN)
            ELSE TRUE
    /\ OnSyscallExitStop(pid, dt, sval, 0)
    /\ kern' = [kern EXCEPT ![pid].kid = 0]
    /\ Fed

FeedPtraceEventStop(pid, dt) ==
    /\ ~rpanic
    /\ kern[pid].life = "alive"
    /\ OnPtraceEventStop(pid, dt, 0)
    /\ Fed
    /\ UNCHANGED kern

\* a live task exits, once
FeedExitedStop(pid, dt) ==
    /\ ~rpanic
    /\ kern[pid].life = "alive"
    /\ OnExitedStop(pid, dt, 0)
    /\ kern' = [kern EXCEPT ![pid].life = "dead"]
    /\ Fed

\* the first stop of a new task (SIGSTOP), or a signal for a live one
FeedStoppedStop(pid, signal, dt) ==
    /\ ~rpanic
    /\ \/ kern[pid].life = "born" /\ signal = "SIGSTOP"
       \/ kern[pid].life = "alive"
    /\ OnStoppedStop(pid, signal, dt, 0)
    /\ kern' = [kern EXCEPT ![pid].life = "alive"]
    /\ Fed

\* the syscalls of the traced program: fork, clone of a thread, execve, read
FeedSysInputs ==
    {info \in SysInputs :
        \/ info.nr \in {"fork", "execve", "read"}
        \/ info.nr = "clone" /\ info.args[1] = CLONE_THREAD + 256}

FeedSvals == {-ENOENT, -EAGAIN, 0} \cup Pids

FeedNext ==
    \/ FeedTraceStart
    \/ \E pid \in Pids, dt \in Ticks, info \in FeedSysInputs, kid \in {0} \cup Pids :
            FeedSyscallEntryStop(pid, dt, info, kid)
    \/ \E pid \in Pids, dt \in Ticks, sval \in FeedSvals :
            FeedSyscallExitStop(pid, dt, sval)
    \/ \E pid \in Pids, dt \in Ticks : FeedPtraceEventStop(pid, dt)
    \/ \E pid \in Pids, dt \in Ticks : FeedExitedStop(pid, dt)
    \/ \E pid \in Pids, sig \in Signals, dt \in Ticks : FeedStoppedStop(pid, sig, dt)

SpecFeed == FeedInit /\ [][FeedNext]_vars

InOrder(info) ==
    /\ \A i \in 1..Len(info.execs) : info.time.start <= info.execs[i].time
    /\ info.time.end # None =>
          /\ info.time.start <= info.time.end.v
          /\ \A i \in 1..Len(info.execs) : info.execs[i].time <= info.time.end.v

\* C12: in every Recording built from the tracer's events in order, each task
\* starts no later than each of its execs, and when its end is set it starts
\* no later than it ends and no exec is later than the end
C12_TimesInOrder ==
    \A i \in 1..Len(rec.processes) : InOrder(rec.processes[i])

\* a task that started after the trace began has an exec and an end
C12_Witness ==
    /\ ~rpanic
    /\ \E i \in 1..Len(rec.processes) :
          /\ rec.processes[i].time.start > 0
          /\ Len(rec.processes[i].execs) = 1
          /\ rec.processes[i].time.end # None

(***************************************************************************)
(*                               LAYOUT                                    *)
(***************************************************************************)

\* ---- bounds of the layout model ----
MaxLayTime == 2     \* event times 0..MaxLayTime

LayTimes == 0..MaxLayTime
\* Three tasks, named in the order their ProcessStart arrives: enough for two
\* siblings under a root, for a grandchild, and for a thread whose child is
\* promoted to the thread's parent.
LayPids == {1, 2, 3}

\* f32::MAX and f32::MIN: above and below every time
F32_MAX == 1000000
F32_MIN == -1000000

SetMin(S) == CHOOSE x \in S : \A y \in S : x <= y
SetMax(S) == CHOOSE x \in S : \A y \in S : x >= y
Range(seq) == {seq[i] : i \in 1..Len(seq)}

\* process_for_each_time: the times f is called with
process_for_each_time(proc) ==
    {proc.time.start}
        \cup (IF proc.time.end = None THEN {} ELSE {proc.time.end.v})
        \cup {proc.execs[i].time : i \in 1..Len(proc.execs)}

\* process_time_bound.  The cache only saves recomputation: an entry is
\* inserted once the bound of the pid is computed and is never changed, and
\* the child lists modelled hold no cycle.
RECURSIVE process_time_bound(_, _)
\* mutation of process_time_bound: only the task's own times count
process_time_bound_OwnTimesOnly(r, pid) ==
    IF ~Contains(r.processes, pid)
    THEN [start |-> F32_MAX, end |-> F32_MIN]
    ELSE LET ts == process_for_each_time(Get(r.processes, pid))
         IN [start |-> SetMin({F32_MAX} \cup ts),
             end |-> SetMax({F32_MIN} \cup ts)]

\* mutation of process_time_bound: a pid without an entry counts from time 0
process_time_bound_MissingIsZero(r, pid) ==
    IF ~Contains(r.processes, pid)
    THEN [start |-> 0, end |-> 0]
    ELSE LET info == Get(r.processes, pid)
             cbs == {process_time_bound(r, info.children[i].pid) :
                         i \in 1..Len(info.children)}
             ts == process_for_each_time(info)
         IN [start |-> SetMin({F32_MAX} \cup {b.start : b \in cbs} \cup ts),
             end |-> SetMax({F32_MIN} \cup {b.end : b \in cbs} \cup ts)]

process_time_bound(r, pid) ==
    IF ~Contains(r.processes, pid)
    THEN [start |-> F32_MAX, end |-> F32_MIN]
    ELSE LET info == Get(r.processes, pid)
             cbs == {process_time_bound(r, info.children[i].pid) :
                         i \in 1..Len(info.children)}
             ts == process_for_each_time(info)
         IN [start |-> SetMin({F32_MAX} \cup {b.start : b \in cbs} \cup ts),
             end |-> SetMax({F32_MIN} \cup {b.end : b \in cbs} \cup ts)]

\* mutation of FlattenChildren: a thread is dropped with all below it
FlattenChildren_DropThreads(r, curr, i) ==
    IF ~Contains(r.processes, curr) THEN <<>>
    ELSE LET ch == Get(r.processes, curr).children
             IsProcess(e) == e.kind = "Process"
             kept == SelectSeq(SubSeq(ch, i, Len(ch)), IsProcess)
         IN [k \in 1..Len(kept) |-> kept[k].pid]

\* fn f of place_process: the children of curr from position i on, a thread
\* replaced by its own (flattened) children
RECURSIVE FlattenChildren(_, _, _)
FlattenChildren(r, curr, i) ==
    IF ~Contains(r.processes, curr) THEN <<>>
    ELSE LET ch == Get(r.processes, curr).children
         IN IF i > Len(ch) THEN <<>>
            ELSE (IF ch[i].kind = "Process" THEN <<ch[i].pid>>
                  ELSE FlattenChildren(r, ch[i].pid, 1))
                 \o FlattenChildren(r, curr, i + 1)

\* the children place_process lays out under pid
EffectiveChildren(r, include_threads, pid) ==
    IF include_threads
    THEN LET ch == Get(r.processes, pid).children
         IN [i \in 1..Len(ch) |-> ch[i].pid]
    ELSE FlattenChildren(r, pid, 1)

\* mutation of TimedChildren: a child whose bound is an instant is kept
TimedChildren_KeepInstants(r, children) == children

\* the children that get events: those whose bound is more than an instant
TimedChildren(r, children) ==
    LET Timed(c) == process_time_bound(r, c).start # process_time_bound(r, c).end
    IN SelectSeq(children, Timed)

\* the keys of time_to_events in the order entry() inserts them
RECURSIVE EventKeys(_, _, _, _)
EventKeys(r, cs, i, keys) ==
    IF i > Len(cs) THEN keys
    ELSE LET cb == process_time_bound(r, cs[i])
             k1 == IF cb.start \in Range(keys) THEN keys ELSE Append(keys, cb.start)
             k2 == IF cb.end \in Range(k1) THEN k1 ELSE Append(k1, cb.end)
         IN EventKeys(r, cs, i + 1, k2)

\* mutation of sorted_by_key: the map's insertion order is kept
sorted_by_key_Unsorted(keys) == keys

\* .sorted_by_key(|&(k, _)| k)
sorted_by_key(keys) == SortSeq(keys, LAMBDA a, b : a < b)

\* struct FreeList: mask[i+1] is the flag of row i, TRUE when the row is free
FreeList_new == <<>>

\* mutation of FreeList::allocate: a run must lie wholly inside the rows there are
FreeList_allocate_WholeRunInside(mask, len) ==
    LET L == Len(mask)
        Fits(s0) == s0 + len <= L /\ \A i \in s0..(s0 + len - 1) : mask[i + 1]
        found == {s0 \in 0..(L - 1) : Fits(s0)}
        start == IF found = {} THEN L ELSE SetMin(found)
        newlen == Max(L, start + len)
    IN [start |-> start,
        mask |-> [i \in 1..newlen |->
                    IF (i - 1) \in start..(start + len - 1) THEN FALSE
                    ELSE IF i <= L THEN mask[i] ELSE TRUE]]

\* FreeList::allocate
FreeList_allocate(mask, len) ==
    LET L == Len(mask)
        Fits(s0) == \A i \in s0..(Min(s0 + len, L) - 1) : mask[i + 1]
        found == {s0 \in 0..(L - 1) : Fits(s0)}
        start == IF found = {} THEN L ELSE SetMin(found)
        newlen == Max(L, start + len)
    IN [start |-> start,
        mask |-> [i \in 1..newlen |->
                    IF (i - 1) \in start..(start + len - 1) THEN FALSE
                    ELSE IF i <= L THEN mask[i] ELSE TRUE]]

\* mutation of FreeList_release: free rows at the end of the mask are dropped
FreeList_release_Shrink(mask, lo, hi) ==
    LET rel == [i \in 1..Len(mask) |-> IF (i - 1) \in lo..(hi - 1) THEN TRUE ELSE mask[i]]
        keep == IF \E i \in 1..Len(rel) : ~rel[i]
                THEN CHOOSE n \in 1..Len(rel) : ~rel[n] /\ \A i \in (n + 1)..Len(rel) : rel[i]
                ELSE 0
    IN [ok |-> \A i \in lo..(hi - 1) : i + 1 <= Len(mask) /\ ~mask[i + 1],
        mask |-> SubSeq(rel, 1, keep)]

\* FreeList::release; ok is the assertion that every row released was in use
\* (and the index check of self.mask[i])
FreeList_release(mask, lo, hi) ==
    [ok |-> \A i \in lo..(hi - 1) : i + 1 <= Len(mask) /\ ~mask[i + 1],
     mask |-> [i \in 1..Len(mask) |-> IF (i - 1) \in lo..(hi - 1) THEN TRUE ELSE mask[i]]]

\* what place_process returns: None, Some(PlacedProcess), or a panic
LayPanic == [tag |-> "Panic"]

\* the state of the sweep of place_process
SweepInit(depth) ==
    [free |-> FreeList_new, children_active |-> {}, placed_children |-> <<>>,
     max_depth |-> depth, panic |-> FALSE]

\* "handle child ends" for the children cs[i..]
RECURSIVE SweepEnds(_, _, _)
\* mutation of SweepEnds: the child leaves the active children, its rows stay
\* marked used
SweepEnds_KeepRows(sw, cs, i) ==
    IF i > Len(cs) \/ sw.panic THEN sw
    ELSE LET act == {a \in sw.children_active : a.pid = cs[i]}
         IN IF act = {} THEN SweepEnds(sw, cs, i + 1)
            ELSE LET a == CHOOSE a \in act : TRUE
                 IN SweepEnds([sw EXCEPT !.children_active = @ \ {a}], cs, i + 1)

SweepEnds(sw, cs, i) ==
    IF i > Len(cs) \/ sw.panic THEN sw
    ELSE LET act == {a \in sw.children_active : a.pid = cs[i]}
         IN IF act = {} THEN SweepEnds(sw, cs, i + 1)
            ELSE LET a == CHOOSE a \in act : TRUE
                     rel == FreeList_release(sw.free, a.lo, a.hi)
                 IN SweepEnds([sw EXCEPT !.free = rel.mask,
                                         !.children_active = @ \ {a},
                                         !.panic = ~rel.ok],
                              cs, i + 1)

RECURSIVE place_process(_, _, _, _)
RECURSIVE SweepStarts(_, _, _, _, _, _)
RECURSIVE Sweep(_, _, _, _, _, _, _)

\* mutation of SweepStarts: the row of the parent itself is not skipped
SweepStarts_FromRowZero(r, include_threads, depth, sw, cs, i) ==
    IF i > Len(cs) \/ sw.panic THEN sw
    ELSE LET child == place_process(r, include_threads, cs[i], depth + 1)
         IN IF child = LayPanic THEN [sw EXCEPT !.panic = TRUE]
            ELSE IF child = None
            THEN SweepStarts(r, include_threads, depth, sw, cs, i + 1)
            ELSE LET al == FreeList_allocate(sw.free, child.v.row_height)
                     dup == \E a \in sw.children_active : a.pid = cs[i]
                     sw1 == [free |-> al.mask,
                             children_active |->
                                {a \in sw.children_active : a.pid # cs[i]}
                                \cup {[pid |-> cs[i], lo |-> al.start,
                                       hi |-> al.start + child.v.row_height]},
                             placed_children |->
                                Append(sw.placed_children,
                                       [child.v EXCEPT !.row_offset = al.start]),
                             max_depth |-> Max(sw.max_depth, child.v.max_depth),
                             panic |-> dup]
                 IN SweepStarts(r, include_threads, depth, sw1, cs, i + 1)

\* "handle child starts" for the children cs[i..]
SweepStarts(r, include_threads, depth, sw, cs, i) ==
    IF i > Len(cs) \/ sw.panic THEN sw
    ELSE LET child == place_process(r, include_threads, cs[i], depth + 1)
         IN IF child = LayPanic THEN [sw EXCEPT !.panic = TRUE]
            ELSE IF child = None
            THEN SweepStarts(r, include_threads, depth, sw, cs, i + 1)
            ELSE LET al == FreeList_allocate(sw.free, child.v.row_height)
                     dup == \E a \in sw.children_active : a.pid = cs[i]
                     sw1 == [free |-> al.mask,
                             children_active |->
                                {a \in sw.children_active : a.pid # cs[i]}
                                \cup {[pid |-> cs[i], lo |-> al.start,
                                       hi |-> al.start + child.v.row_height]},
                             placed_children |->
                                Append(sw.placed_children,
                                       [child.v EXCEPT !.row_offset = 1 + al.start]),
                             max_depth |-> Max(sw.max_depth, child.v.max_depth),
                             panic |-> dup]
                 IN SweepStarts(r, include_threads, depth, sw1, cs, i + 1)

\* mutation of Sweep: the children starting at one time are taken last first
Sweep_StartsReversed(r, include_threads, depth, sw, cs, events, k) ==
    IF k > Len(events) \/ sw.panic THEN sw
    ELSE LET StartsNow(c) == process_time_bound(r, c).start = events[k]
             EndsNow(c) == process_time_bound(r, c).end = events[k]
             ended == SweepEnds(sw, SelectSeq(cs, EndsNow), 1)
             now == SelectSeq(cs, StartsNow)
             started == SweepStarts(r, include_threads, depth, ended,
                                    [i \in 1..Len(now) |-> now[Len(now) + 1 - i]], 1)
         IN Sweep(r, include_threads, depth, started, cs, events, k + 1)

\* mutation of Sweep: at each event the starts are handled before the ends
Sweep_StartsFirst(r, include_threads, depth, sw, cs, events, k) ==
    IF k > Len(events) \/ sw.panic THEN sw
    ELSE LET StartsNow(c) == process_time_bound(r, c).start = events[k]
             EndsNow(c) == process_time_bound(r, c).end = events[k]
             started == SweepStarts(r, include_threads, depth, sw,
                                    SelectSeq(cs, StartsNow), 1)
             ended == SweepEnds(started, SelectSeq(cs, EndsNow), 1)
         IN Sweep(r, include_threads, depth, ended, cs, events, k + 1)

\* "simulate time from left to right" over the events events[k..]
Sweep(r, include_threads, depth, sw, cs, events, k) ==
    IF k > Len(events) \/ sw.panic THEN sw
    ELSE LET StartsNow(c) == process_time_bound(r, c).start = events[k]
             EndsNow(c) == process_time_bound(r, c).end = events[k]
             ended == SweepEnds(sw, SelectSeq(cs, EndsNow), 1)
             started == SweepStarts(r, include_threads, depth, ended,
                                    SelectSeq(cs, StartsNow), 1)
         IN Sweep(r, include_threads, depth, started, cs, events, k + 1)

\* place_process
place_process(r, include_threads, pid, depth) ==
    IF ~Contains(r.processes, pid) THEN None
    ELSE LET cs == TimedChildren(r, EffectiveChildren(r, include_threads, pid))
             sorted_events == sorted_by_key(EventKeys(r, cs, 1, <<>>))
             sw == Sweep(r, include_threads, depth, SweepInit(depth), cs,
                         sorted_events, 1)
         IN IF sw.panic THEN LayPanic
            ELSE Some([pid |-> pid,
                       depth |-> depth,
                       row_offset |-> 0,
                       row_height |-> 1 + Len(sw.free),
                       children |-> sw.placed_children,
                       max_depth |-> sw.max_depth,
                       time_bound |-> process_time_bound(r, pid)])

\* place_processes
place_processes(r, include_threads) ==
    IF r.root_pid = None THEN None
    ELSE place_process(r, include_threads, r.root_pid.v, 0)

\* ---- the Recordings laid out ----
\* What a trace tells of one task: its start, its end if it has exited, and
\* the time of an exec.  Times are read off one clock, so nothing precedes the
\* start; an exec is kept for a task still running, where it is the one time
\* after the start.
LayTasks ==
    UNION {{[start |-> t0, end |-> None, exec |-> None]}
               \cup {[start |-> t0, end |-> Some(t), exec |-> None] :
                        t \in {t1 \in LayTimes : t1 >= t0}}
               \cup {[start |-> t0, end |-> None, exec |-> Some(t)] :
                        t \in {t1 \in LayTimes : t1 >= t0}}
           : t0 \in LayTimes}

\* who reported a task as its child: nobody (parent 0), or a task started
\* before it
LayParents(c, n) ==
    {[parent |-> 0, kind |-> "Process"]}
        \cup {[parent |-> q, kind |-> k] : q \in 1..Min(c - 1, n), k \in Kinds}

\* the events of a trace of the tasks 1..n, in an order the tracer can send
\* them in: starts, then ProcessChild in the order of the children (the
\* other way round when rev), then execs, then exits
LayStarts(n, task) == [p \in 1..n |-> RProcessStart(p, task[p].start)]
LayChildren(par, rev) ==
    LET order == IF rev THEN <<3, 2>> ELSE <<2, 3>>
        Listed(c) == par[c].parent # 0
        listed == SelectSeq(order, Listed)
    IN [i \in 1..Len(listed) |->
            RProcessChild(par[listed[i]].parent, listed[i], par[listed[i]].kind)]
LayExecs(n, task) ==
    LET Has(p) == task[p].exec # None
        ps == SelectSeq([p \in 1..n |-> p], Has)
    IN [i \in 1..Len(ps) |->
            RProcessExec(ps[i], task[ps[i]].exec.v, "/bin/true", None, <<"/bin/true">>)]
LayExits(n, task) ==
    LET Has(p) == task[p].end # None
        ps == SelectSeq([p \in 1..n |-> p], Has)
    IN [i \in 1..Len(ps) |-> RProcessExit(ps[i], task[ps[i]].end.v)]
LayEvents(n, task, par, rev) ==
    LayStarts(n, task) \o LayChildren(par, rev) \o LayExecs(n, task) \o LayExits(n, task)

\* report called with each event in turn
RECURSIVE ReportAll(_, _, _)
ReportAll(r, evs, i) ==
    IF i > Len(evs) THEN r ELSE ReportAll(Report(r, evs[i]).rec, evs, i + 1)

LayInit ==
    /\ \E n \in 0..Cardinality(LayPids) :
       \E task \in [1..n -> LayTasks] :
          /\ \A p \in 2..n : task[p - 1].start <= task[p].start
          /\ \E p2 \in LayParents(2, n), p3 \in LayParents(3, n), rev \in BOOLEAN :
                /\ rev => p2.parent # 0 /\ p3.parent = p2.parent
                /\ rec = ReportAll(Recording_new,
                        LayEvents(n, task, [c \in {2, 3} |-> IF c = 2 THEN p2 ELSE p3], rev), 1)
    /\ rec2 = rec
    /\ rpanic = FALSE
    /\ rlast = NoEvent
    /\ rfirst = rec.root_pid
    /\ placed = None
    /\ pc = "idle" /\ partial_syscalls = <<>> /\ active_processes = {}
    /\ root_exec_any_success = FALSE /\ root_exec_last_error = None
    /\ emitted = <<>> /\ result = None /\ clock = 0
    /\ kentry = <<>> /\ klast = NoExit /\ khist = None
    /\ kern = None /\ cancel = FALSE /\ chan = <<>> /\ sent = <<>>
    /\ cpc = "idle" /\ slot = None /\ data = None

\* struct DataToGui: the Recording with its two layouts
PlaceProcesses ==
    /\ placed = None
    /\ placed' = [no |-> place_processes(rec, FALSE),
                  yes |-> place_processes(rec, TRUE)]
    /\ UNCHANGED <<tvars, rvars, pvars>>

LayNext == PlaceProcesses

SpecLayout == LayInit /\ [][LayNext]_vars

(***************************************************************************)
(*                      THE FREE LIST ON ITS OWN                           *)
(***************************************************************************)

\* ---- bounds ----
MaxFreeRows == 5    \* rows the free list may grow to
MaxRunLen == 3      \* rows asked for in one allocate

\* a FreeList used as the sweep uses it: runs are allocated, and the runs
\* released are runs allocated before. placed holds the list, the runs in use
\* and the last call of allocate (the mask it found, len, the start returned)
FreeListInit ==
    /\ pc = "start"
    /\ partial_syscalls = [p \in Pids |-> None]
    /\ active_processes = {}
    /\ root_exec_any_success = FALSE
    /\ root_exec_last_error = None
    /\ emitted = <<>>
    /\ result = None
    /\ clock = 0
    /\ kentry = [p \in Pids |-> None]
    /\ klast = NoExit
    /\ khist = [root_exec_ok |-> FALSE, root_last_fail |-> None,
                other_fail |-> None, brk |-> 0]
    /\ rec = None /\ rec2 = None /\ rpanic = FALSE /\ rlast = <<>> /\ rfirst = None
    /\ placed = [free |-> FreeList_new, children_active |-> {}, call |-> None]
    /\ kern = None /\ cancel = FALSE /\ chan = <<>> /\ sent = <<>>
    /\ cpc = "idle" /\ slot = None /\ data = None

\* free.allocate(len)
FreeListAllocate(len) ==
    /\ LET al == FreeList_allocate(placed.free, len) IN
       /\ Len(al.mask) <= MaxFreeRows
       /\ placed' = [free |-> al.mask,
                     children_active |->
                        placed.children_active \cup
                            {[lo |-> al.start, hi |-> al.start + len]},
                     call |-> [mask |-> placed.free, len |-> len,
                               start |-> al.start]]
    /\ UNCHANGED <<tvars, rvars, pvars>>

\* free.release(range) of a run in use
FreeListRelease(run) ==
    /\ run \in placed.children_active
    /\ LET rel == FreeList_release(placed.free, run.lo, run.hi) IN
       /\ rel.ok
       /\ placed' = [free |-> rel.mask,
                     children_active |-> placed.children_active \ {run},
                     call |-> None]
    /\ UNCHANGED <<tvars, rvars, pvars>>

FreeListNext ==
    \/ \E len \in 1..MaxRunLen : FreeListAllocate(len)
    \/ \E lo \in 0..MaxFreeRows, hi \in 1..MaxFreeRows :
            FreeListRelease([lo |-> lo, hi |-> hi])

SpecFreeList == FreeListInit /\ [][FreeListNext]_vars

(***************************************************************************)
(*                TRACER, COLLECTOR AND CONSUMER IN PARALLEL               *)
(***************************************************************************)

\* ---- bounds ----
MaxPipeSent == 2    \* events the tracer puts on the FIFO in one session

\* struct DataToGui
DataToGui(r) ==
    [recording |-> r,
     placed_threads_no |-> place_processes(r, FALSE),
     placed_threads_yes |-> place_processes(r, TRUE)]

\* the callback of the tracer worker: the flag is read before each send, and
\* a call that finds it set returns Break without sending.  brk is the call of
\* this loop iteration that found the flag set (the first one when the flag
\* was set before; a later one when it is set meanwhile).
Sends(brk) ==
    /\ cancel => brk = 1
    /\ ~cancel => brk # 1
    /\ cancel' = (cancel \/ brk # 0)
    /\ LET passed == IF brk = 0 THEN emitted'
                     ELSE SubSeq(emitted', 1, Len(emitted') - 1)
           IsEvent(ev) == ToRecorder(ev) # <<>>
           evs == SelectSeq(passed, IsEvent)
           out == [i \in 1..Len(evs) |-> ToRecorder(evs[i])[1]]
       IN /\ chan' = chan \o out
          /\ sent' = sent \o out
    /\ UNCHANGED <<rec, rec2, rpanic, rlast, rfirst, placed, cpc, slot, data>>

PipeInit ==
    /\ pc = "start"
    /\ partial_syscalls = [p \in Pids |-> None]
    /\ active_processes = {}
    /\ root_exec_any_success = FALSE
    /\ root_exec_last_error = None
    /\ emitted = <<>>
    /\ result = None
    /\ clock = 0
    /\ kentry = [p \in Pids |-> None]
    /\ klast = NoExit
    /\ khist = [root_exec_ok |-> FALSE, root_last_fail |-> None,
                other_fail |-> None, brk |-> 0]
    /\ rec = Recording_new /\ rec2 = Recording_new
    /\ rpanic = FALSE /\ rlast = NoEvent /\ rfirst = None
    /\ placed = None
    /\ kern = KernInit
    /\ cancel = FALSE /\ chan = <<>> /\ sent = <<>>
    /\ cpc = "wait" /\ slot = None /\ data = None

\* ---- the tracer worker ----
PipeTraceStart(brk) ==
    /\ OnTraceStart(brk)
    /\ Sends(brk)
    /\ UNCHANGED kern

PipeSyscallEntryStop(pid, dt, info, kid, brk) ==
    /\ Len(sent) < MaxPipeSent
    /\ kern[pid].life = "alive"
    /\ kid # 0 => ForkLike(info) /\ kern[kid].life = "unborn"
    /\ OnSyscallEntryStop(pid, dt, info, brk)
    /\ kern' = [p \in Pids |->
                  IF p = pid THEN [kern[p] EXCEPT !.kid = kid]
                  ELSE IF p = kid THEN [kern[p] EXCEPT !.life = "born"]
                  ELSE kern[p]]
    /\ Sends(brk)

PipeSyscallExitStop(pid, dt, sval, brk) ==
    /\ Len(sent) < MaxPipeSent
    /\ kern[pid].life = "alive"
    /\ kentry[pid] # None
    /\ ~kentry[pid].exec /\ partial_syscalls[pid].tag = "Fork" =>
          sval = (IF kern[pid].kid # 0 THEN kern[pid].kid ELSE -EAGAIN)
    /\ OnSyscallExitStop(pid, dt, sval, brk)
    /\ kern' = [kern EXCEPT ![pid].kid = 0]
    /\ Sends(brk)

PipePtraceEventStop(pid, dt, brk) ==
    /\ Len(sent) < MaxPipeSent
    /\ kern[pid].life = "alive"
    /\ OnPtraceEventStop(pid, dt, brk)
    /\ Sends(brk)
    /\ UNCHANGED kern

PipeExitedStop(pid, dt, brk) ==
    /\ Len(sent) < MaxPipeSent
    /\ kern[pid].life = "alive"
    /\ OnExitedStop(pid, dt, brk)
    /\ kern' = [kern EXCEPT ![pid].life = "dead"]
    /\ Sends(brk)

PipeStoppedStop(pid, signal, dt, brk) ==
    /\ Len(sent) < MaxPipeSent
    /\ \/ kern[pid].life = "born" /\ signal = "SIGSTOP"
       \/ kern[pid].life = "alive"
    /\ OnStoppedStop(pid, signal, dt, brk)
    /\ kern' = [kern EXCEPT ![pid].life = "alive"]
    /\ Sends(brk)

\* ---- whoever holds the flag ----
\* the flag is set; setting it again changes nothing
SetCancel ==
    /\ cancel' = TRUE
    /\ UNCHANGED <<tvars, rvars, placed, kern, chan, sent, cpc, slot, data>>

\* ---- the collector worker ----
\* one wakeup: every event on the FIFO goes into the recorder, both layouts
\* are computed, the snapshot is published
CollectorWake ==
    /\ cpc = "wait"
    /\ chan # <<>>
    /\ LET res == ReportEach(RecOk(rec), chan, 1)
       IN rec' = res.rec /\ rpanic' = ~res.ok
    /\ cpc' = IF rpanic' THEN "done" ELSE "wait"
    /\ slot' = IF rpanic' THEN slot ELSE Some(DataToGui(rec'))
    /\ chan' = <<>>
    /\ UNCHANGED <<tvars, rec2, rlast, rfirst, placed, kern, cancel, sent, data>>

\* the collector leaves its loop: the FIFO is closed (the tracer has returned
\* and dropped the sender) and empty, or it wakes up and finds the flag set
CollectorExit ==
    /\ cpc = "wait"
    /\ \/ chan = <<>> /\ pc = "done"
       \/ chan # <<>> /\ cancel
    /\ cpc' = "done"
    /\ UNCHANGED <<tvars, rvars, placed, kern, cancel, chan, sent, slot, data>>

\* mutation of AppUpdate: the layouts of the snapshot held are kept
AppUpdate_KeepLayouts ==
    /\ slot # None
    /\ data' = IF data = None THEN slot
               ELSE Some([data.v EXCEPT !.recording = slot.v.recording])
    /\ slot' = None
    /\ UNCHANGED <<tvars, rvars, placed, kern, cancel, chan, sent, cpc>>

\* ---- the consumer ----
\* App::update: if let Some(new_data) = data_to_gui.lock().take()
AppUpdate ==
    /\ slot # None
    /\ data' = slot
    /\ slot' = None
    /\ UNCHANGED <<tvars, rvars, placed, kern, cancel, chan, sent, cpc>>

PipeSysInputs == {info \in SysInputs : info.nr \in {"fork", "execve"}}
\* an exec succeeds; a fork returns the new task or fails
PipeSvals == {-EAGAIN, 0} \cup Pids

PipeNext ==
    \/ \E brk \in 0..2 : PipeTraceStart(brk)
    \/ \E pid \in Pids, dt \in Ticks, info \in PipeSysInputs,
          kid \in {0} \cup Pids, brk \in 0..2 :
            PipeSyscallEntryStop(pid, dt, info, kid, brk)
    \/ \E pid \in Pids, dt \in Ticks, sval \in PipeSvals, brk \in 0..2 :
            PipeSyscallExitStop(pid, dt, sval, brk)
    \/ \E pid \in Pids, dt \in Ticks, brk \in 0..2 : PipePtraceEventStop(pid, dt, brk)
    \/ \E pid \in Pids, dt \in Ticks, brk \in 0..2 : PipeExitedStop(pid, dt, brk)
    \/ \E pid \in Pids, dt \in Ticks, brk \in 0..2 :
            PipeStoppedStop(pid, "SIGSTOP", dt, brk)
    \/ SetCancel
    \/ CollectorWake
    \/ CollectorExit
    \/ AppUpdate

\* the threads of the program are scheduled; the traced program owes the
\* tracer no further stop
SpecPipe ==
    /\ PipeInit
    /\ [][PipeNext]_vars
    /\ WF_vars(\E brk \in 0..2 : PipeTraceStart(brk))
    /\ WF_vars(CollectorWake)
    /\ WF_vars(CollectorExit)
    /\ WF_vars(AppUpdate)

\* ---- claims about place_processes ----
\* the nodes of a tree
RECURSIVE NodesOf(_)
NodesOf(node) ==
    {node} \cup UNION {NodesOf(node.children[i]) : i \in 1..Len(node.children)}

\* the two time bounds share more than one instant
OverlapMore(a, b) ==
    Max(a.time_bound.start, b.time_bound.start) < Min(a.time_bound.end, b.time_bound.end)

\* the rows [row_offset, row_offset + row_height) of a and b are disjoint
RowsDisjoint(a, b) ==
    \/ a.row_offset + a.row_height <= b.row_offset
    \/ b.row_offset + b.row_height <= a.row_offset

SiblingsApart(tree) ==
    tree.tag = "Some" =>
        \A node \in NodesOf(tree.v) :
            \A i, j \in 1..Len(node.children) :
                i # j /\ OverlapMore(node.children[i], node.children[j])
                    => RowsDisjoint(node.children[i], node.children[j])

\* C1: in each tree place_processes builds, with threads and without, two
\* placed children of one parent whose time bounds share more than an instant
\* lie on disjoint rows under that parent
C1_SiblingRowsDisjoint ==
    placed # None => SiblingsApart(placed.no) /\ SiblingsApart(placed.yes)

\* two tasks under the root run at the same time and are placed on rows apart
C1_Witness ==
    /\ placed # None
    /\ placed.no.tag = "Some"
    /\ LET root == placed.no.v
       IN /\ Len(root.children) = 2
          /\ OverlapMore(root.children[1], root.children[2])
          /\ RowsDisjoint(root.children[1], root.children[2])

\* ---- which tasks are laid out under which ----
\* the children list of p, empty for a pid without an entry
ChildList(r, p) == IF Contains(r.processes, p) THEN Get(r.processes, p).children ELSE <<>>

\* the tasks the children list of p names with the kind given
Kids(r, p, kind) ==
    {ChildList(r, p)[i].pid :
        i \in {k \in 1..Len(ChildList(r, p)) : ChildList(r, p)[k].kind = kind}}

\* the chains of at most n child edges from p: Thread edges up to the last
\* one, which is a Process edge; a chain is the sequence of the tasks reached
RECURSIVE ThreadChainsUpTo(_, _, _)
ThreadChainsUpTo(r, p, n) ==
    IF n = 0 THEN {}
    ELSE {<<q>> : q \in Kids(r, p, "Process")}
            \cup UNION {{<<t>> \o c : c \in ThreadChainsUpTo(r, t, n - 1)} :
                            t \in Kids(r, p, "Thread")}

ThreadChains(r, p) == ThreadChainsUpTo(r, p, Cardinality(LayPids))

\* the positions in the children lists that the chain c from p goes through
ChainPositions(r, p, c) ==
    [j \in 1..Len(c) |->
        LET ch == ChildList(r, IF j = 1 THEN p ELSE c[j - 1])
        IN CHOOSE i \in 1..Len(ch) : ch[i].pid = c[j]]

\* a depth-first walk meets the end of a before the end of b
WalkedBefore(a, b) ==
    \E k \in 1..Min(Len(a), Len(b)) :
        /\ a[k] < b[k]
        /\ \A l \in 1..(k - 1) : a[l] = b[l]

\* flat lists the ends of the chains from p, in the order of the walk
FlatIsChains(r, p, flat) ==
    LET chains == ThreadChains(r, p)
        at == [c \in chains |-> ChainPositions(r, p, c)]
    IN /\ Len(flat) = Cardinality(chains)
       /\ \A c \in chains : \E i \in 1..Len(flat) : flat[i] = c[Len(c)]
       /\ \A i, j \in 1..Len(flat) :
             i < j => \E a, b \in chains :
                         /\ a[Len(a)] = flat[i] /\ b[Len(b)] = flat[j]
                         /\ WalkedBefore(at[a], at[b])

\* the tasks some children list names with kind Thread
ThreadTargets(r) ==
    {q \in LayPids :
        \E p \in LayPids : \E i \in 1..Len(ChildList(r, p)) :
            ChildList(r, p)[i] = [kind |-> "Thread", pid |-> q]}

\* of the pids cands, those place_process gives a row: they have an entry and
\* a time bound of more than an instant
Rowed(r, cands) ==
    {q \in cands : /\ Contains(r.processes, q)
                   /\ process_time_bound(r, q).start # process_time_bound(r, q).end}

PlacedPids(node) == {node.children[i].pid : i \in 1..Len(node.children)}

\* C13: without threads, the children considered for a task are exactly the
\* ends of the chains of Thread edges closed by a Process edge, in the order
\* of a depth-first walk of the children lists, and no task named by a Thread
\* edge is a node of the tree; with threads, the children of a node are the
\* tasks its own children list names, whatever their kind
C13_ThreadsFlattened ==
    placed # None =>
    /\ \A p \in LayPids :
          /\ FlatIsChains(rec, p, EffectiveChildren(rec, FALSE, p))
          /\ Contains(rec.processes, p) =>
                EffectiveChildren(rec, TRUE, p)
                    = [i \in 1..Len(ChildList(rec, p)) |-> ChildList(rec, p)[i].pid]
    /\ placed.no.tag = "Some" =>
          \A node \in NodesOf(placed.no.v) :
              /\ node.pid \notin ThreadTargets(rec)
              /\ PlacedPids(node)
                    = Rowed(rec, {c[Len(c)] : c \in ThreadChains(rec, node.pid)})
    /\ placed.yes.tag = "Some" =>
          \A node \in NodesOf(placed.yes.v) :
              PlacedPids(node)
                  = Rowed(rec, {ChildList(rec, node.pid)[i].pid :
                                    i \in 1..Len(ChildList(rec, node.pid))})

\* the root has a thread that forked a process: without threads the process
\* is placed under the root, with threads under the thread
C13_Witness ==
    /\ placed # None /\ placed.no.tag = "Some" /\ placed.yes.tag = "Some"
    /\ ChildList(rec, 1) = <<[kind |-> "Thread", pid |-> 2]>>
    /\ ChildList(rec, 2) = <<[kind |-> "Process", pid |-> 3]>>
    /\ PlacedPids(placed.no.v) = {3}
    /\ PlacedPids(placed.yes.v) = {2}
    /\ PlacedPids(placed.yes.v.children[1]) = {3}

\* ---- the same trace with and without its threads ----
\* a thread that has no children: removing it (its entry and the edge to it)
\* leaves the children considered without threads for every task as they are
LeafThread(r, q) == q \in ThreadTargets(r) /\ ChildList(r, q) = <<>>

\* the tasks that have such a thread
ThreadHosts(r) == {p \in LayPids : \E q \in Kids(r, p, "Thread") : LeafThread(r, q)}

\* the Recording before the threads without children were added
WithoutLeafThreads(r) ==
    LET KeepEntry(info) == ~LeafThread(r, info.pid)
        KeepEdge(e) == ~(e.kind = "Thread" /\ LeafThread(r, e.pid))
        kept == SelectSeq(r.processes, KeepEntry)
    IN [r EXCEPT !.processes =
            [i \in 1..Len(kept) |->
                [kept[i] EXCEPT !.children = SelectSeq(@, KeepEdge)]]]

\* the tasks below a, at most n child edges away
RECURSIVE Below(_, _, _)
Below(r, a, n) ==
    IF n = 0 THEN {}
    ELSE LET kids == Kids(r, a, "Process") \cup Kids(r, a, "Thread")
         IN kids \cup UNION {Below(r, k, n - 1) : k \in kids}

\* where the tree places the task: its rows and its time bound
PlacementOf(tree, pid) ==
    IF tree.tag # "Some" THEN {}
    ELSE {[row_offset |-> node.row_offset, row_height |-> node.row_height,
           time_bound |-> node.time_bound] :
              node \in {n \in NodesOf(tree.v) : n.pid = pid}}

\* C14: without threads, the layout of a Recording to which Thread edges and
\* thread tasks were added gives every Process task above the tasks they were
\* added to the same row_offset, row_height and time_bound as the layout of
\* the Recording without them
C14_ThreadsLeavePlacementAbove ==
    placed # None =>
        \A a \in LayPids \ ThreadTargets(rec) :
            Below(rec, a, Cardinality(LayPids)) \cap ThreadHosts(rec) # {}
                => PlacementOf(placed.no, a)
                     = PlacementOf(place_processes(WithoutLeafThreads(rec), FALSE), a)

\* ---- rows of a task inside the rows of its parent ----
Enclosed(tree) ==
    tree.tag = "Some" =>
        /\ tree.v.row_offset = 0
        /\ \A node \in NodesOf(tree.v) :
              /\ node.row_height >= 1
              /\ \A i \in 1..Len(node.children) :
                    /\ node.children[i].row_offset >= 1
                    /\ node.children[i].row_offset + node.children[i].row_height
                          <= node.row_height

\* C15: in each tree place_processes builds the root has row_offset 0, every
\* row_height is at least 1, and a placed child lies at row_offset 1 or more
\* and ends no lower than its parent: row_offset + row_height of the child is
\* at most the row_height of the parent
C15_ParentEnclosesChildren ==
    placed # None => Enclosed(placed.no) /\ Enclosed(placed.yes)

\* a child with a child of its own under the root: three rows in all
C15_Witness ==
    /\ placed # None
    /\ placed.yes.tag = "Some"
    /\ placed.yes.v.row_height = 3
    /\ Len(placed.yes.v.children) = 1
    /\ placed.yes.v.children[1].row_offset = 1
    /\ placed.yes.v.children[1].row_height = 2
    /\ Len(placed.yes.v.children[1].children) = 1

\* ---- the end of a time bound ----
\* the end the time bound of a task is to have: none when the end of the task
\* or of the bound of one of its children is unknown, else the latest of them
RECURSIVE UnfinishedEnd(_, _)
UnfinishedEnd(r, pid) ==
    IF ~Contains(r.processes, pid) THEN None
    ELSE LET info == Get(r.processes, pid)
             ends == {info.time.end}
                        \cup {UnfinishedEnd(r, info.children[i].pid) :
                                  i \in 1..Len(info.children)}
         IN IF None \in ends THEN None ELSE Some(SetMax({e.v : e \in ends}))

\* the end of a RangeInclusive<f32>, which always has one
EndOf(time_bound) == Some(time_bound.end)

EndsAsStated(tree) ==
    tree.tag = "Some" =>
        \A node \in NodesOf(tree.v) :
            EndOf(node.time_bound) = UnfinishedEnd(rec, node.pid)

\* C16: the end of the time bound of a placed task is none exactly when the
\* end of the task itself or of the time bound of one of its children is
\* unknown, and is the latest of those ends otherwise
C16_UnfinishedEndPropagates ==
    placed # None => EndsAsStated(placed.no) /\ EndsAsStated(placed.yes)

\* ---- Recording::child_counts ----
RECURSIVE for_each_process_child(_, _, _)

\* mutation of for_each_process_child: threads are visited, not walked into
for_each_process_child_DirectOnly(r, start, i) ==
    IF ~Contains(r.processes, start) THEN <<>>
    ELSE LET ch == Get(r.processes, start).children
         IN IF i > Len(ch) THEN <<>>
            ELSE <<ch[i]>> \o for_each_process_child(r, start, i + 1)

\* mutation of for_each_process_child: the walk goes on below processes too
for_each_process_child_BelowAll(r, start, i) ==
    IF ~Contains(r.processes, start) THEN <<>>
    ELSE LET ch == Get(r.processes, start).children
         IN IF i > Len(ch) THEN <<>>
            ELSE <<ch[i]>>
                    \o for_each_process_child(r, ch[i].pid, 1)
                    \o for_each_process_child(r, start, i + 1)

\* for_each_process_child: the (kind, pid) pairs f is called with, for the
\* children of start from position i on
for_each_process_child(r, start, i) ==
    IF ~Contains(r.processes, start) THEN <<>>
    ELSE LET ch == Get(r.processes, start).children
         IN IF i > Len(ch) THEN <<>>
            ELSE <<ch[i]>>
                    \o (IF ch[i].kind = "Thread"
                        THEN for_each_process_child(r, ch[i].pid, 1)
                        ELSE <<>>)
                    \o for_each_process_child(r, start, i + 1)

\* child_counts
child_counts(r, pid) ==
    LET met == for_each_process_child(r, pid, 1)
        IsProcess(e) == e.kind = "Process"
        IsThread(e) == e.kind = "Thread"
    IN [processes |-> Len(SelectSeq(met, IsProcess)),
        threads |-> Len(SelectSeq(met, IsThread))]

\* the tasks the walk from pid looks into: pid, and each task at the end of
\* at most n Thread edges from it
RECURSIVE Walked(_, _, _)
Walked(r, pid, n) ==
    {pid} \cup (IF n = 0 THEN {}
                ELSE UNION {Walked(r, t, n - 1) : t \in Kids(r, pid, "Thread")})

\* the child edges of the kind given that leave a task walked
EdgesMet(r, pid, kind) ==
    {<<t, i>> \in Walked(r, pid, Cardinality(LayPids)) \X (1..Cardinality(LayPids)) :
        i <= Len(ChildList(r, t)) /\ ChildList(r, t)[i].kind = kind}

\* C18: child_counts(pid) counts the child edges of pid and of every task
\* reached from pid by Thread edges alone, none below a Process edge:
\* processes is the number of Process edges among them, threads the number of
\* Thread edges
C18_ChildCountsWalkThreads ==
    \A pid \in LayPids :
        child_counts(rec, pid)
            = [processes |-> Cardinality(EdgesMet(rec, pid, "Process")),
               threads |-> Cardinality(EdgesMet(rec, pid, "Thread"))]

\* the root has a thread that has a process: the walk from the root counts
\* both edges
C18_Witness ==
    /\ placed # None
    /\ ChildList(rec, 1) = <<[kind |-> "Thread", pid |-> 2]>>
    /\ ChildList(rec, 2) = <<[kind |-> "Process", pid |-> 3]>>
    /\ child_counts(rec, 1) = [processes |-> 1, threads |-> 1]
    /\ child_counts(rec, 2) = [processes |-> 1, threads |-> 0]

Consistent(snap) ==
    \E k \in 0..Len(sent) :
        snap = DataToGui(ReportAll(Recording_new, SubSeq(sent, 1, k), 1))

\* C20: every snapshot the consumer has taken is the recorder's state after a
\* prefix of the event stream together with the layouts without and with
\* threads computed from that same state
C20_SnapshotIsPrefixWithItsLayouts ==
    data # None => Consistent(data.v)

\* the consumer holds the snapshot of the first event while the second one is
\* on its way
C20_Witness ==
    /\ data # None
    /\ Len(sent) = 2
    /\ data.v = DataToGui(ReportAll(Recording_new, SubSeq(sent, 1, 1), 1))
    /\ data.v # DataToGui(ReportAll(Recording_new, sent, 1))


(***************************************************************************)
(*              TRACER: pairing of entry and exit stops                    *)
(***************************************************************************)

\* the task has a syscall in flight that the tracer saw enter
InFlight(pid) == kentry[pid] # None
\* the events of the last loop iteration, when it was the exit stop of `k`
ExitCalls(k) ==
    <<EvTime(clock)>> \o ExitEvent(k.view.seen, k.pid, k.sval, clock)

\* C21: whatever the interleaving of the tasks' syscall stops, the tracer
\* holds a classification for a task exactly while that task is between its
\* own entry and exit stop, it is the one made at that task's entry, and the
\* exit stop is dispatched with it.
C21_StopsPairPerTask ==
    ~Broke =>
        /\ \A pid \in Pids :
            /\ (partial_syscalls[pid] # None) <=> InFlight(pid)
            /\ InFlight(pid) => partial_syscalls[pid] = kentry[pid].seen
        /\ klast.kind = "exit" => emitted = ExitCalls(klast)

\* the other task's fork returns while the root's execve is still in flight
C21_Witness ==
    /\ ~Broke
    /\ klast.kind = "exit" /\ klast.pid = OtherPid
    /\ emitted = <<EvTime(clock), EvProcessChild(OtherPid, RootPid, "Thread")>>
    /\ InFlight(RootPid) /\ partial_syscalls[RootPid].tag = "Exec"

\* C22: a syscall-exit stop of a task with no stored entry classification is
\* treated as Ignore: only the Time event is emitted at it and nothing is
\* stored for the task that a later stop of it would be dispatched with.
C22_UnstoredExitIsIgnored ==
    (~Broke /\ klast.kind = "unstored") =>
        /\ emitted = <<EvTime(clock)>>
        /\ partial_syscalls[klast.pid] = None

\* C23: at the exit stop of a syscall classified Fork(kind) at its entry, the
\* tracer emits ProcessChild(parent = the stopped task, child = the return
\* value, kind) when the return value is positive and no event when it is
\* zero or negative.
C23_ForkExitEmitsChildIffPositive ==
    (~Broke /\ klast.kind = "exit" /\ klast.view.seen.tag = "Fork") =>
        emitted =
            IF klast.sval > 0
            THEN <<EvTime(clock),
                   EvProcessChild(klast.pid, klast.sval, klast.view.seen.kind)>>
            ELSE <<EvTime(clock)>>

\* the root's fork returned the other task's id
C23_Witness ==
    /\ ~Broke
    /\ klast.kind = "exit" /\ klast.pid = RootPid /\ klast.sval = OtherPid
    /\ klast.view.seen = SeFork("Process")
    /\ emitted = <<EvTime(clock), EvProcessChild(RootPid, OtherPid, "Process")>>

\* bit 16 of the flags word
HasCloneThread(flags) == flags % (2 * CLONE_THREAD) >= CLONE_THREAD
KindOfFlags(flags) == IF HasCloneThread(flags) THEN "Thread" ELSE "Process"

\* C24: fork and vfork are classified Fork(Process); clone is Fork(Thread)
\* exactly when its first argument has the CLONE_THREAD bit, else
\* Fork(Process); clone3 follows the same rule on the first 64-bit word of its
\* clone_args and takes the flags as 0 when its size argument is below 8;
\* every other syscall but execve and execveat, unknown numbers included, is
\* Ignore.
C24_EntryClassification ==
    \A pid \in Pids :
        partial_syscalls[pid] # None =>
            LET i == kern[pid]
                c == partial_syscalls[pid]
            IN CASE i.nr \in {"fork", "vfork"} -> c = SeFork("Process")
                 [] i.nr = "clone" -> c = SeFork(KindOfFlags(i.args[1]))
                 [] i.nr = "clone3" ->
                        c = SeFork(IF i.args[2] < 8 THEN "Process"
                                   ELSE KindOfFlags(i.mem[i.args[1]].word))
                 [] i.nr \in {"execve", "execveat"} -> c.tag = "Exec"
                 [] OTHER -> c = SeIgnore

\* a clone3 of a thread with the smallest size that is read, beside a clone
\* whose flags have every bit below CLONE_THREAD
C24_Witness ==
    /\ kern[RootPid].nr = "clone3" /\ kern[RootPid].args[2] = 8
    /\ partial_syscalls[RootPid] = SeFork("Thread")
    /\ kern[OtherPid].nr = "clone" /\ kern[OtherPid].args[1] = CLONE_THREAD - 1
    /\ partial_syscalls[OtherPid] = SeFork("Process")

\* the last loop iteration emitted the ProcessExit of the task
ExitEmitted(pid) ==
    \E i \in 1..Len(emitted) :
        emitted[i].tag = "ProcessExit" /\ emitted[i].pid = pid

\* C25: the table of partial syscalls holds one classification for a task
\* exactly from one of its entry stops to the matching exit stop (or to its
\* end), and none once the task's ProcessExit has been emitted; an entry stop
\* therefore always finds the task's slot empty, which is what insert_first
\* asserts.
C25_TableFollowsStops ==
    ~Broke =>
        \A pid \in Pids :
            /\ InFlight(pid) <=> partial_syscalls[pid] # None
            /\ ExitEmitted(pid) => partial_syscalls[pid] = None

\* a task ended while the root has a syscall in flight
C25_Witness ==
    /\ ~Broke
    /\ ExitEmitted(OtherPid) /\ partial_syscalls[OtherPid] = None
    /\ InFlight(RootPid) /\ partial_syscalls[RootPid] = SeIgnore

\* C26: while no callback says Break, the main loop has ended exactly when the
\* last status it handled was the exit or kill of the root; the end of any
\* other task emits its ProcessExit and leaves the loop running; after the
\* root's end nothing more is emitted, whatever tasks are still alive.
C26_LoopEndsOnRootExitOnly ==
    ~Broke =>
        /\ pc = "done" <=> ExitEmitted(RootPid)
        /\ \A pid \in Pids \ {RootPid} : ExitEmitted(pid) => pc = "loop"

\* the root ended while the other task, started and inside a syscall, lives on
C26_Witness ==
    /\ pc = "done" /\ ~Broke
    /\ emitted = <<EvTime(clock), EvProcessExit(RootPid, clock)>>
    /\ OtherPid \in active_processes /\ InFlight(OtherPid)

\* the times carried by the events of one loop iteration
TimesOf(evs) ==
    {evs[i].time : i \in {j \in 1..Len(evs) : "time" \in DOMAIN evs[j]}}

\* C27: the root's ProcessStart carries time 0; every timed event emitted
\* later carries the elapsed time read at the stop that caused it; the times
\* of the events never decrease in the order of emission.
C27_EventTimesNeverDecrease ==
    [][/\ pc = "start" => emitted' = Delivered(<<EvProcessStart(RootPid, 0)>>, khist'.brk)
       /\ pc # "start" => \A t \in TimesOf(emitted') : t = clock'
       /\ \A s \in TimesOf(emitted), t \in TimesOf(emitted') : s <= t]_vars

\* a task started at a stop where the clock had moved on
C27_Witness ==
    /\ clock > 0
    /\ emitted = <<EvTime(clock), EvProcessStart(OtherPid, clock)>>

\* the Recording holds the task: its ProcessStart was emitted before
Started(r, pid) == Contains(r.processes, pid)
\* the Recording holds the task's end: its ProcessExit was emitted before
Ended(r, pid) == Started(r, pid) /\ Get(r.processes, pid).time.end # None
\* the task an event is about: its pid, or the parent of a ProcessChild
SubjectOf(ev) == IF ev.tag = "ProcessChild" THEN ev.parent ELSE ev.pid

\* C28: when every task but the root is first reported by a SIGSTOP or
\* SIGTRAP signal-delivery stop and no stop is reported for a task after its
\* exit, a task's ProcessStart is emitted once and before every other event
\* about it (as pid, or as the parent of a ProcessChild), its ProcessExit is
\* the last event about it, and the fresh Recording the events are reported
\* to never panics.
C28_StreamIsWellFormed ==
    [][/\ \A i \in 1..Len(emitted') :
            LET ev == emitted'[i] IN
            ev.tag # "Time" =>
                /\ ev.tag = "ProcessStart" <=> ~Started(rec, SubjectOf(ev))
                /\ ~Ended(rec, SubjectOf(ev))
       /\ ~rpanic']_vars

\* both tasks were started, the root forked the other, the other has exited
C28_Witness ==
    /\ ~rpanic
    /\ Started(rec, RootPid) /\ ~Ended(rec, RootPid)
    /\ Ended(rec, OtherPid)
    /\ Len(Get(rec.processes, RootPid).children) = 1
    /\ emitted = <<EvTime(clock), EvProcessExit(OtherPid, clock)>>

\* every row of mask that exists in [s, s + len) is free
RunIsFree(mask, s, len) ==
    \A i \in s..(s + len - 1) : i < Len(mask) => mask[i + 1]

\* C29: allocate(len) with len >= 1 returns the smallest start s such that
\* every existing row in [s, s + len) is free; the mask grows only when the
\* run reaches past the rows there were, and then just as far as the run;
\* afterwards the rows of the run are in use and every other row is as it was.
C29_AllocateIsLeftmostFit ==
    placed.call # None =>
        LET m == placed.call.mask
            len == placed.call.len
            s == placed.call.start
            now == placed.free
        IN /\ RunIsFree(m, s, len)
           /\ \A t \in 0..(s - 1) : ~RunIsFree(m, t, len)
           /\ Len(now) = (IF s + len <= Len(m) THEN Len(m) ELSE s + len)
           /\ \A i \in 0..(Len(now) - 1) :
                now[i + 1] = (IF i \in s..(s + len - 1) THEN FALSE ELSE m[i + 1])

\* a run of two rows starts at the free last row behind a row in use and
\* makes the list one row longer
C29_Witness ==
    /\ placed.call # None
    /\ placed.call.mask = <<FALSE, TRUE>>
    /\ placed.call.len = 2 /\ placed.call.start = 1
    /\ placed.free = <<FALSE, FALSE, FALSE>>

\* a's time bound ends no later than b's starts
EndsBefore(a, b) == a.time_bound.end <= b.time_bound.start

\* under every task with just two placed children of one row each, one
\* over before the other begins, both children lie on the first row below the
\* parent's own and the parent is two rows high
RowReused(tree) ==
    tree.tag = "Some" =>
        \A node \in NodesOf(tree.v) :
            (/\ Len(node.children) = 2
             /\ \A i \in 1..2 : node.children[i].row_height = 1
             /\ \E i, j \in 1..2 : i # j /\ EndsBefore(node.children[i], node.children[j]))
            => /\ \A i \in 1..2 : node.children[i].row_offset = 1
               /\ node.row_height = 2

\* C30: at each event time of a parent's sweep the ends of children are
\* handled before the starts, so the rows a child gives back at time t can go
\* to a child starting at t: when the time bound of child A ends no later than
\* that of child B starts, both are one row high and the parent has no other
\* child, A and B both get row_offset 1 and the parent gets row_height 2.
C30_EndsBeforeStartsReuseRow ==
    placed # None => RowReused(placed.no) /\ RowReused(placed.yes)

\* the second child of the root starts at the instant the first one ends
C30_Witness ==
    /\ placed # None
    /\ placed.no.tag = "Some"
    /\ LET root == placed.no.v
       IN /\ Len(root.children) = 2
          /\ root.children[1].time_bound.start < root.children[1].time_bound.end
          /\ root.children[1].time_bound.end = root.children[2].time_bound.start
          /\ root.children[1].row_offset = 1 /\ root.children[1].row_height = 1
          /\ root.children[2].row_offset = 1 /\ root.children[2].row_height = 1
          /\ root.row_height = 2

\* ---- children that have not ended ----
\* under every task, a placed child whose end is unknown shares no row with
\* a placed sibling that starts after it
UnfinishedKeepRows(tree) ==
    tree.tag = "Some" =>
        \A node \in NodesOf(tree.v) :
            \A i, j \in 1..Len(node.children) :
                (/\ i # j
                 /\ UnfinishedEnd(rec, node.children[i].pid) = None
                 /\ node.children[i].time_bound.start < node.children[j].time_bound.start)
                => RowsDisjoint(node.children[i], node.children[j])

\* C31: in a parent's sweep a child whose end is unknown (the task or one of
\* its descendants is still alive) keeps its rows to the end of the sweep: no
\* sibling that starts later is given any of its rows.
C31_UnfinishedChildKeepsRows ==
    placed # None => UnfinishedKeepRows(placed.no) /\ UnfinishedKeepRows(placed.yes)

\* ---- children whose time bound is an instant ----
\* the tasks that are nodes of the tree
TreePids(tree) == {node.pid : node \in NodesOf(tree.v)}

IsInstant(r, c) == process_time_bound(r, c).start = process_time_bound(r, c).end
Lasts(r, c) ==
    Contains(r.processes, c)
        /\ process_time_bound(r, c).start < process_time_bound(r, c).end

\* under every node: a child considered whose bound is an instant is no node
\* of the tree, nor is any task below it, and takes no row; a child considered
\* that has an entry and a bound of more than an instant is placed once
InstantsSkipped(tree, include_threads) ==
    tree.tag = "Some" =>
        \A node \in NodesOf(tree.v) :
            LET eff == EffectiveChildren(rec, include_threads, node.pid) IN
            /\ \A k \in 1..Len(eff) :
                  /\ IsInstant(rec, eff[k]) =>
                        ({eff[k]} \cup Below(rec, eff[k], Cardinality(LayPids)))
                            \cap TreePids(tree) = {}
                  /\ Lasts(rec, eff[k]) =>
                        Cardinality({i \in 1..Len(node.children) :
                                        node.children[i].pid = eff[k]}) = 1
            /\ (\A k \in 1..Len(eff) : IsInstant(rec, eff[k])) => node.row_height = 1

\* C32: a child whose time bound has start == end is skipped by the sweep of
\* its parent: neither it nor its subtree is in the placed tree and it takes
\* no row; every child whose time bound has start < end and whose ProcessInfo
\* exists is placed exactly once.
C32_InstantChildrenSkipped ==
    placed # None =>
        InstantsSkipped(placed.no, FALSE) /\ InstantsSkipped(placed.yes, TRUE)

\* the root has a child that is an instant, with a child of its own, and
\* nothing is placed under the root
C32_Witness ==
    /\ placed # None /\ placed.yes.tag = "Some"
    /\ ChildList(rec, 1) = <<[kind |-> "Process", pid |-> 2]>>
    /\ ChildList(rec, 2) = <<[kind |-> "Process", pid |-> 3]>>
    /\ Contains(rec.processes, 3)
    /\ IsInstant(rec, 2)
    /\ placed.yes.v.children = <<>> /\ placed.yes.v.row_height = 1

\* ---- the order of the children of one task ----
\* the place of the task in the list
PlaceIn(list, pid) == CHOOSE k \in 1..Len(list) : list[k] = pid

\* under every node the placed children are listed by ascending start of
\* their time bound, those of one start in the order of the children
\* considered; of two children of one start and one height the one considered
\* first got the lower rows
InChildListOrder(tree, include_threads) ==
    tree.tag = "Some" =>
        \A node \in NodesOf(tree.v) :
            LET eff == EffectiveChildren(rec, include_threads, node.pid)
                ch == node.children
            IN \A i, j \in 1..Len(ch) :
                  i < j =>
                    /\ ch[i].time_bound.start <= ch[j].time_bound.start
                    /\ ch[i].time_bound.start = ch[j].time_bound.start =>
                          /\ PlaceIn(eff, ch[i].pid) < PlaceIn(eff, ch[j].pid)
                          /\ ch[i].row_height = ch[j].row_height =>
                                ch[i].row_offset < ch[j].row_offset

RowsReached(node) ==
    LET ends == {node.children[i].row_offset - 1 + node.children[i].row_height :
                    i \in 1..Len(node.children)}
    IN IF ends = {} THEN 0 ELSE CHOOSE m \in ends : \A e \in ends : e <= m

\* every node is one row higher than the rows its placed children ever
\* reached, also those released again before the end of the sweep
HeightIsOnePlusRows(tree) ==
    tree.tag = "Some" =>
        \A node \in NodesOf(tree.v) :
            /\ node.row_height = 1 + RowsReached(node)
            /\ node.children = <<>> => node.row_height = 1
            /\ (Len(node.children) = 1 /\ node.children[1].children = <<>>) =>
                  /\ node.row_height = 2
                  /\ node.children[1].row_offset = 1
                  /\ node.children[1].row_height = 1

\* C34: a placed task's row_height is 1 plus the final length of its free-row
\* mask, which never shrinks during the sweep: a task with no placed children
\* has row_height 1, and a parent whose only placed child is a leaf has
\* row_height 2 with the child at row_offset 1 and row_height 1.
C34_RowHeightIsOnePlusMask ==
    placed # None =>
        HeightIsOnePlusRows(placed.no) /\ HeightIsOnePlusRows(placed.yes)

\* the only placed child of the root is a leaf that ends before the root
\* does: its row is released and still counted
C34_Witness ==
    /\ placed # None /\ placed.yes.tag = "Some"
    /\ LET root == placed.yes.v
       IN /\ Len(root.children) = 1
          /\ root.children[1].children = <<>>
          /\ root.children[1].time_bound.end < root.time_bound.end
          /\ root.row_height = 2
          /\ root.children[1].row_offset = 1

\* ---- the free rows and the active children during a sweep ----
\* no children list of the Recording names a task twice
NoDuplicateChild(r) ==
    \A p \in 1..Len(r.processes) :
        LET ch == r.processes[p].children
        IN \A i, j \in 1..Len(ch) : i # j => ch[i].pid # ch[j].pid

\* the states of the sweep of one task: before the first event, after the
\* ends of every event, and after its starts
SweepStates(r, include_threads, pid, depth) ==
    LET cs == TimedChildren(r, EffectiveChildren(r, include_threads, pid))
        events == sorted_by_key(EventKeys(r, cs, 1, <<>>))
        After(k) == Sweep(r, include_threads, depth, SweepInit(depth), cs,
                          SubSeq(events, 1, k), 1)
        AfterEnds(k) ==
            LET EndsNow(c) == process_time_bound(r, c).end = events[k]
            IN SweepEnds(After(k - 1), SelectSeq(cs, EndsNow), 1)
    IN {After(k) : k \in 0..Len(events)} \cup {AfterEnds(k) : k \in 1..Len(events)}

\* a row is marked used iff exactly one active child holds it, and no
\* assertion has failed
MaskMatchesActive(sw) ==
    /\ ~sw.panic
    /\ \A i \in 1..Len(sw.free) :
          ~sw.free[i] <=>
              Cardinality({a \in sw.children_active : a.lo <= i - 1 /\ i - 1 < a.hi}) = 1
    /\ \A a, b \in sw.children_active :
          a # b => (a.hi <= b.lo \/ b.hi <= a.lo)
    /\ \A a \in sw.children_active : a.lo < a.hi /\ a.hi <= Len(sw.free)

SweepsConsistent(tree, include_threads) ==
    /\ tree # LayPanic
    /\ tree.tag = "Some" =>
          \A node \in NodesOf(tree.v) :
              \A sw \in SweepStates(rec, include_threads, node.pid, node.depth) :
                  MaskMatchesActive(sw)

\* C35: for recordings whose child lists contain no duplicate pid, at every
\* step of a parent's sweep a row of the free-row mask is marked used iff it
\* lies in the range of exactly one currently active child, the ranges of
\* active children are pairwise disjoint, and so neither the assertion of
\* release nor the one of insert_first on the active children ever fails.
C35_MaskMatchesActiveChildren ==
    (placed # None /\ NoDuplicateChild(rec)) =>
        SweepsConsistent(placed.no, FALSE) /\ SweepsConsistent(placed.yes, TRUE)

\* a sweep of the root in which one child's row was released while another
\* child still holds its own
C35_Witness ==
    /\ placed # None /\ NoDuplicateChild(rec) /\ placed.yes.tag = "Some"
    /\ \E sw \in SweepStates(rec, TRUE, 1, 0) :
          /\ Cardinality(sw.children_active) = 1
          /\ Len(sw.free) = 2
          /\ \E i \in 1..2 : sw.free[i]

\* ---- children without an entry ----
\* the children lists name a pid that has no entry
MissingChildren(r) ==
    {c \in LayPids : /\ ~Contains(r.processes, c)
                     /\ \E p \in 1..Len(r.processes) :
                           \E i \in 1..Len(r.processes[p].children) :
                               r.processes[p].children[i].pid = c}

\* the Recording without those references
WithoutMissing(r) ==
    LET Known(c) == Contains(r.processes, c.pid)
    IN [r EXCEPT !.processes =
            [p \in 1..Len(r.processes) |->
                [r.processes[p] EXCEPT !.children = SelectSeq(@, Known)]]]

\* C36: place_processes does not panic when a child list references a pid
\* that has no ProcessInfo yet: that child is omitted from the placed tree,
\* occupies no row, and contributes nothing to its parent's time_bound or
\* row_height (the tree is the one of the Recording without the reference).
C36_MissingChildIsIgnored ==
    (placed # None /\ MissingChildren(rec) # {}) =>
        /\ placed.no # LayPanic /\ placed.yes # LayPanic
        /\ placed.no.tag = "Some" => TreePids(placed.no) \cap MissingChildren(rec) = {}
        /\ placed.yes.tag = "Some" => TreePids(placed.yes) \cap MissingChildren(rec) = {}
        /\ placed.no = place_processes(WithoutMissing(rec), FALSE)
        /\ placed.yes = place_processes(WithoutMissing(rec), TRUE)

\* the root, started after time 0, lists a child without an entry and a
\* child that is placed
C36_Witness ==
    /\ placed # None /\ placed.yes.tag = "Some"
    /\ MissingChildren(rec) = {3}
    /\ [i \in 1..Len(ChildList(rec, 1)) |-> ChildList(rec, 1)[i].pid] = <<2, 3>>
    /\ placed.yes.v.time_bound.start > 0
    /\ Len(placed.yes.v.children) = 1
    /\ placed.yes.v.row_height = 2

\* ---- the time bound of a child lies within its parent's ----
BoundsNested(tree) ==
    tree.tag = "Some" =>
        \A node \in NodesOf(tree.v) :
            \A i \in 1..Len(node.children) :
                /\ node.time_bound.start <= node.children[i].time_bound.start
                /\ node.children[i].time_bound.end <= node.time_bound.end

\* C37: for every placed non-root task c with placed parent p, for either
\* value of include_threads, c's time_bound lies within p's:
\* p.time_bound.start <= c.time_bound.start and
\* c.time_bound.end <= p.time_bound.end.
C37_ChildBoundWithinParent ==
    placed # None => BoundsNested(placed.no) /\ BoundsNested(placed.yes)

\* without threads, a process placed under the root through a thread ends
\* after the root itself has exited
C37_Witness ==
    /\ placed # None /\ placed.no.tag = "Some"
    /\ Get(rec.processes, 1).time.end # None
    /\ LET root == placed.no.v
       IN /\ Len(root.children) = 1
          /\ root.children[1].pid = 3
          /\ ChildList(rec, 1) # <<>> /\ ChildList(rec, 1)[1].pid = 2
          /\ root.children[1].time_bound.end > Get(rec.processes, 1).time.end.v

\* ---- the processes counted and the processes laid out ----
\* the pids of kind Process that for_each_process_child calls f with, in
\* the order of the calls
ProcessesMet(r, pid) ==
    LET IsProcess(e) == e.kind = "Process"
        met == SelectSeq(for_each_process_child(r, pid, 1), IsProcess)
    IN [i \in 1..Len(met) |-> met[i].pid]

ReportInputs ==
    {RTraceStart(t) : t \in Instants} \cup {RTraceEnd}
        \cup {RProcessStart(pid, t) : pid \in RecPids, t \in RecTimes}
        \cup {RProcessExit(pid, t) : pid \in RecPids, t \in RecTimes}
        \cup {RProcessChild(p, c, k) : p \in RecPids, c \in RecPids, k \in Kinds}
        \cup {RProcessExec(pid, t, "/bin/true", Some("/"), <<"/bin/true">>) :
                 pid \in RecPids, t \in RecTimes}

IsPrefix(s, t) == Len(s) <= Len(t) /\ SubSeq(t, 1, Len(s)) = s

\* r1 is r after a call of report with ev that returned
ReportKeeps(r, ev, r1) ==
    LET named == Untimed(ev).pid
    IN /\ Len(r1.processes) >= Len(r.processes)
       /\ \A i \in 1..Len(r.processes) :
             /\ r1.processes[i].pid = r.processes[i].pid
             /\ IsPrefix(r.processes[i].execs, r1.processes[i].execs)
             /\ IsPrefix(r.processes[i].children, r1.processes[i].children)
             /\ r.processes[i].pid # named => r1.processes[i] = r.processes[i]
       /\ \A i \in (Len(r.processes) + 1)..Len(r1.processes) :
             r1.processes[i].pid = named
       /\ ev.tag \in {"TraceStart", "TraceEnd"} => r1.processes = r.processes

\* C39: applying any event to a Recording never removes a process entry and
\* never removes, reorders or rewrites existing elements of any execs or
\* children list; it changes only the entry of the pid named by the event
\* (the parent for ProcessChild), and TraceStart/TraceEnd change no process
\* entry.
C39_ReportOnlyAppends ==
    \A ev \in ReportInputs :
        LET r == Report(rec, ev)
        IN r.ok => ReportKeeps(rec, ev, r.rec)

\* a Recording in which one task has an exec and a child edge, so that a
\* further event has elements to keep
C39_Witness ==
    /\ ~rpanic
    /\ \E i \in 1..Len(rec.processes) :
          /\ Len(rec.processes[i].execs) = 1
          /\ Len(rec.processes[i].children) = 1

\* ======================================================================
\* POLLER (src/src/poll.rs): record_poll walks /proc once per period
\* ======================================================================
\* SpecPoll: the root command is task 1; task 2 is a thread of it
\* (/proc/1/task/2), task 3 a child process of its main thread (listed in
\* /proc/1/task/1/children).  Between two polls the tasks come and go and
\* the processes change their executable.  The variables used:
\*   kern    what /proc shows: the tasks alive, the tasks ever started, and
\*           per process what get_process_exec_info reads
\*   data    the poller's ever_active and prev_active
\*   emitted the events handed to the callback by the last iteration
\*   klast   the last iteration: prev_active before it, the tasks /proc
\*           showed under the root
\*   clock   time_now_f, one tick per iteration
MaxPolls == 3       \* iterations of the loop of record_poll

PollPids == {1, 2, 3}
\* what get_process_exec_info returns: Err (None) or Ok(path)
PollExes == {None, Some("/bin/sh"), Some("/bin/true")}

\* TraceEvent::None and TraceEvent::TraceEnd { time }
PollNone == [tag |-> "TraceNone"]
PollTraceEnd(time) == [tag |-> "TraceEnd", time |-> time]

\* read_dir(/proc/<pid>/task)
ProcTasks(k, pid) ==
    LET Alive(t) == t \in k.alive
    IN IF pid = 1 THEN SelectSeq(<<1, 2>>, Alive) ELSE SelectSeq(<<pid>>, Alive)
\* read_to_string(/proc/<pid>/task/<task>/children)
ProcChildren(k, task) == IF task = 1 /\ 3 \in k.alive THEN <<3>> ELSE <<>>
get_process_exec_info(k, pid) == k.exe[pid]

RECURSIVE poll_proc_all(_, _, _, _)
RECURSIVE VisitTasks(_, _, _, _, _, _)
RECURSIVE VisitChildren(_, _, _, _, _, _)

\* the loop over the children file of one task
VisitChildren(k, time, task, children, j, st) ==
    IF j > Len(children) \/ st.panic THEN st
    ELSE LET child == children[j]
             st1 == IF child \in DOMAIN st.ever_active THEN st
                    ELSE [st EXCEPT !.out = Append(@, RProcessChild(task, child, "Process"))]
         IN VisitChildren(k, time, task, children, j + 1,
                          poll_proc_all(k, time, child, st1))

\* the loop over the task directory of pid: a thread is reported, and put
\* into curr_active, only when ever_active has no entry for it yet
VisitTasks(k, time, pid, tasks, i, st) ==
    IF i > Len(tasks) \/ st.panic THEN st
    ELSE LET task == tasks[i]
             st1 == IF task # pid /\ task \notin DOMAIN st.ever_active
                    THEN [st EXCEPT !.ever_active = (task :> None) @@ @,
                                    !.curr_active = @ \cup {task},
                                    !.out = @ \o <<RProcessStart(task, time),
                                                  RProcessChild(pid, task, "Thread")>>]
                    ELSE st
         IN VisitTasks(k, time, pid, tasks, i + 1,
                       VisitChildren(k, time, task, ProcChildren(k, task), 1, st1))

\* poll_proc_all; st holds ever_active, curr_active, the calls of the
\* callback in order, and whether an assertion failed
poll_proc_all(k, time, pid, st) ==
    IF pid \in st.curr_active THEN [st EXCEPT !.panic = TRUE]
    ELSE LET known == pid \in DOMAIN st.ever_active
             out1 == IF known THEN st.out ELSE Append(st.out, RProcessStart(pid, time))
             new_info == get_process_exec_info(k, pid)
             old_info == IF known THEN st.ever_active[pid] ELSE None
             changed == new_info # None /\ (old_info = None \/ old_info.v # new_info.v)
             out2 == IF changed
                     THEN Append(out1, RProcessExec(pid, time, new_info.v, Some("/"),
                                                    <<new_info.v>>))
                     ELSE out1
             ever1 == IF new_info # None THEN (pid :> new_info) @@ st.ever_active
                      ELSE IF old_info = None THEN (pid :> None) @@ st.ever_active
                      ELSE st.ever_active
         IN VisitTasks(k, time, pid, ProcTasks(k, pid), 1,
                       [st EXCEPT !.ever_active = ever1,
                                  !.curr_active = @ \cup {pid},
                                  !.out = out2])

\* the tasks /proc shows under the root: its tasks, their children, and the
\* tasks of those
ProcFound(k) ==
    LET Elems(s) == {s[i] : i \in 1..Len(s)}
        ts == Elems(ProcTasks(k, 1))
        cs == UNION {Elems(ProcChildren(k, t)) : t \in ts}
    IN ts \cup cs \cup UNION {Elems(ProcTasks(k, c)) : c \in cs}

\* ProcessExit for each pid of the set (a HashSet is walked in no specified
\* order; ascending here)
RECURSIVE PollExits(_, _)
PollExits(pids, time) ==
    IF pids = {} THEN <<>>
    ELSE LET p == SetMin(pids)
         IN <<RProcessExit(p, time)>> \o PollExits(pids \ {p}, time)

pollrest == <<partial_syscalls, active_processes, root_exec_any_success,
              root_exec_last_error, kentry, khist, rec, rec2, rpanic, rlast,
              rfirst, placed, cancel, chan, sent, cpc, slot>>

\* record_poll up to the loop: the root is spawned, TraceStart is sent
PollInit ==
    /\ pc = "poll"
    /\ \E e \in PollExes : kern = [alive |-> {1}, born |-> {1}, exe |-> [p \in {1, 3} |-> e]]
    /\ data = [ever_active |-> <<>>, prev_active |-> {}]
    /\ emitted = <<RTraceStart("i1")>>
    /\ klast = [tag |-> "Poll", kind |-> "none", prev |-> {}, found |-> {}]
    /\ clock = 0 /\ result = None
    /\ partial_syscalls = <<>> /\ active_processes = {}
    /\ root_exec_any_success = FALSE /\ root_exec_last_error = None
    /\ kentry = <<>> /\ khist = None
    /\ rec = Recording_new /\ rec2 = Recording_new /\ rpanic = FALSE
    /\ rlast = NoEvent /\ rfirst = None /\ placed = None
    /\ cancel = FALSE /\ chan = <<>> /\ sent = <<>> /\ cpc = "idle" /\ slot = None

\* one iteration of the loop of record_poll; the callback breaks at its
\* brk-th call of the iteration (0: at none)
PollOnce(brk) ==
    /\ pc = "poll"
    /\ clock < MaxPolls
    /\ LET time == clock
           rootdone == 1 \notin kern.alive
           st == poll_proc_all(kern, time, 1,
                    [ever_active |-> data.ever_active, curr_active |-> {},
                     out |-> <<>>, panic |-> FALSE])
           calls == IF rootdone
                    THEN <<PollNone>> \o PollExits(data.prev_active, time)
                            \o <<PollTraceEnd(time)>>
                    ELSE <<PollNone>> \o st.out
                            \o PollExits(data.prev_active \ st.curr_active, time)
           broke == brk >= 1 /\ brk <= Len(calls)
       IN /\ emitted' = IF broke THEN SubSeq(calls, 1, brk) ELSE calls
          /\ pc' = IF broke \/ rootdone \/ st.panic THEN "done" ELSE "poll"
          /\ result' = IF broke THEN Some("Break")
                       ELSE IF rootdone THEN Some("Exited")
                       ELSE IF st.panic THEN Some("Panic")
                       ELSE None
          /\ data' = IF broke \/ rootdone \/ st.panic THEN data
                     ELSE [ever_active |-> st.ever_active, prev_active |-> st.curr_active]
          /\ klast' = [tag |-> "Poll", kind |-> IF rootdone THEN "last" ELSE "poll",
                       prev |-> data.prev_active, found |-> ProcFound(kern)]
    /\ clock' = clock + 1
    /\ UNCHANGED <<kern, pollrest>>

\* ---- what happens to the tasks between two polls ----
TaskAppears(t) ==
    /\ pc = "poll"
    /\ 1 \in kern.alive
    /\ t \in {2, 3} \ kern.born
    /\ kern' = [kern EXCEPT !.alive = @ \cup {t}, !.born = @ \cup {t}]
    /\ UNCHANGED <<pc, emitted, result, clock, klast, data, pollrest>>

TaskVanishes(t) ==
    /\ pc = "poll"
    /\ t \in kern.alive \ {1}
    /\ kern' = [kern EXCEPT !.alive = @ \ {t}]
    /\ UNCHANGED <<pc, emitted, result, clock, klast, data, pollrest>>

RootFinishes ==
    /\ pc = "poll"
    /\ 1 \in kern.alive
    /\ kern' = [kern EXCEPT !.alive = @ \ {1}]
    /\ UNCHANGED <<pc, emitted, result, clock, klast, data, pollrest>>

ExeChanges(p, e) ==
    /\ pc = "poll"
    /\ p \in kern.alive \cap {1, 3}
    /\ e # kern.exe[p]
    /\ kern' = [kern EXCEPT !.exe[p] = e]
    /\ UNCHANGED <<pc, emitted, result, clock, klast, data, pollrest>>

PollNext ==
    \/ \E brk \in 0..2 : PollOnce(brk)
    \/ \E t \in PollPids : TaskAppears(t)
    \/ \E t \in PollPids : TaskVanishes(t)
    \/ RootFinishes
    \/ \E p \in PollPids, e \in PollExes : ExeChanges(p, e)

SpecPoll == PollInit /\ [][PollNext]_vars

\* ---- the poller: the claim ----
\* the pids of the ProcessExit events among the calls
ExitsIn(calls) ==
    {calls[i].pid : i \in {j \in 1..Len(calls) : calls[j].tag = "ProcessExit"}}

\* C40: in record_poll, before the root finishes, ProcessExit(pid) is emitted
\* only in a poll in which pid, reported active in the previous poll, is no
\* longer found under the root: a task (process or thread) that is still
\* present at every poll receives no ProcessExit until the root's exit.
C40_ExitOnlyWhenGone ==
    (klast.tag = "Poll" /\ klast.kind = "poll") =>
        \A pid \in ExitsIn(emitted) : pid \in klast.prev /\ pid \notin klast.found
====
